---- MODULE Spec2Model ----
(***************************************************************************)
(* Model of ruapc-rdma-sys: the device enumeration pipeline                *)
(* (src/devices/{mod,device,raw}.rs) over a Verbs Interface whose calls    *)
(* are recorded in a call log.                                             *)
(*                                                                         *)
(* The hardware (raw device list, ports, address tables, sysfs type files) *)
(* is the static variable hw; the failures of the verbs calls that abort   *)
(* an operation are chosen when the call is made.  Every verbs call the    *)
(* code issues is appended to the log `calls`, so release counts and       *)
(* release order are properties of the log.                                *)
(*                                                                         *)
(* The functions of src/types (WRID, Guid, FwVer, LinkLayer), the serde    *)
(* forms of Error and query_gid_type are operators; each has a             *)
(* specification of its own in which calls are made on an argument chosen  *)
(* at the start (arg, text, ret).  SpecArc starts when Devices::open has   *)
(* returned and lets threads clone, read and drop the collection; there    *)
(* text holds the holders and ret the strong counts.                       *)
(***************************************************************************)
EXTENDS Integers, Sequences, FiniteSets, TLC

\* ------------------------------------------------------------------ bounds
\* Spec: raw devices in the list and ports per device.
MaxDevices == 2
DevPorts == 1
\* SpecPorts: one device; its ports and the addresses per port.
MaxPorts == 2
PortGids == 2
\* SpecGids: one device with one port; its address table length.
MaxGids == 2
\* update_attr calls after Devices::open returned.
MaxUpdates == 1
\* SpecFwVer: the bytes of a firmware version buffer that are chosen freely.
MaxFwPrefix == 3
\* SpecFwVerText: characters after the run of "a" of a string.
MaxFwTail == 2
\* SpecArc: collections and handles, the returned collection included.
MaxHolders == 3

\* ------------------------------------------------------------ value domains
Names == {"mlx5_0", "mlx5_1", "mlx5_2"}
DeviceFilters == {{}, {"mlx5_0"}, {"mlx5_1"}, {"mlx5_9"}}

IBV_PORT_DOWN == "IBV_PORT_DOWN"
IBV_PORT_ACTIVE == "IBV_PORT_ACTIVE"
PortStates == {IBV_PORT_DOWN, IBV_PORT_ACTIVE}

LinkLayers == {"Unspecified", "InfiniBand", "Ethernet"}

\* sysfs gid type strings, as character sequences.
GID_TYPE_IB_ROCE_V1 == <<"I","B","/","R","o","C","E"," ","v","1","\n">>
GID_TYPE_ROCE_V2 == <<"R","o","C","E"," ","v","2","\n">>

\* A 128-bit address as eight 16-bit groups, most significant first.
GidLinkLocal == <<65152, 0, 0, 0, 0, 0, 0, 1>>
GidGlobal == <<8193, 3512, 0, 0, 0, 0, 0, 2>>
GidZero == <<0, 0, 0, 0, 0, 0, 0, 0>>

\* ------------------------------------------------------------- GidType
IB == [tag |-> "IB", payload |-> <<>>]
RoCEv1 == [tag |-> "RoCEv1", payload |-> <<>>]
RoCEv2 == [tag |-> "RoCEv2", payload |-> <<>>]
Other(s) == [tag |-> "Other", payload |-> s]

\* ------------------------------------------------------------- ibv_gid
interface_id(gid) == <<gid[5], gid[6], gid[7], gid[8]>>

is_null(gid) == interface_id(gid) = <<0, 0, 0, 0>>

\* Ipv6Addr::is_unicast_link_local: (segments[0] & 0xffc0) == 0xfe80.
is_unicast_link_local(gid) == (gid[1] \div 64) * 64 = 65152

\* ------------------------------------------------------------- str::trim
IsWhitespace(c) == c \in {" ", "\n", "\t", "\r"}

RECURSIVE TrimStart(_)
TrimStart(s) ==
    IF s # <<>> /\ IsWhitespace(Head(s)) THEN TrimStart(Tail(s)) ELSE s

RECURSIVE TrimEnd(_)
TrimEnd(s) ==
    IF s # <<>> /\ IsWhitespace(s[Len(s)])
    THEN TrimEnd(SubSeq(s, 1, Len(s) - 1))
    ELSE s

trim(s) == TrimEnd(TrimStart(s))

\* ------------------------------------------------------------- errors
with_errno(kind) == [kind |-> kind, msg |-> "errno"]

ErrorFrom(kind) == [kind |-> kind, msg |-> ""]

Error_new(kind, msg) == [kind |-> kind, msg |-> msg]

\* ------------------------------------------------------------- call log
Call(op, h, port, idx, ok) ==
    [op |-> op, h |-> h, port |-> port, idx |-> idx, ok |-> ok]

\* ------------------------------------------------------------- raw.rs
NoError == [kind |-> "None", msg |-> ""]

\* RawContext::query_gid rejecting only the address whose 128 bits are zero.
query_gid_AllZeroIsNull(slot) ==
    IF slot.ret = 0 /\ slot.gid # GidZero
    THEN [ok |-> TRUE, gid |-> slot.gid, err |-> NoError]
    ELSE [ok |-> FALSE, gid |-> GidZero, err |-> with_errno("IBQueryGidFail")]

\* RawContext::query_gid on the address-table entry `slot`.
query_gid(slot) ==
    IF slot.ret = 0 /\ ~is_null(slot.gid)
    THEN [ok |-> TRUE, gid |-> slot.gid, err |-> NoError]
    ELSE [ok |-> FALSE, gid |-> GidZero, err |-> with_errno("IBQueryGidFail")]

\* query_gid_type comparing the trimmed content with the trimmed sentinels.
query_gid_type_TrimmedCompare(slot, port_attr) ==
    IF slot.readable
    THEN IF trim(slot.content) = trim(GID_TYPE_IB_ROCE_V1)
         THEN [ok |-> TRUE, err |-> NoError, gid_type |->
                  CASE port_attr.link_layer = "InfiniBand" -> IB
                    [] port_attr.link_layer = "Ethernet" -> RoCEv1
                    [] OTHER -> Other(trim(slot.content))]
         ELSE IF trim(slot.content) = trim(GID_TYPE_ROCE_V2)
         THEN [ok |-> TRUE, err |-> NoError, gid_type |-> RoCEv2]
         ELSE [ok |-> TRUE, err |-> NoError, gid_type |-> Other(trim(slot.content))]
    ELSE [ok |-> FALSE, err |-> Error_new("IBQueryGidTypeFail", "io error"),
          gid_type |-> Other(<<>>)]

\* RawContext::query_gid_type on the sysfs type file of `slot`.
query_gid_type(slot, port_attr) ==
    IF slot.readable
    THEN IF slot.content = GID_TYPE_IB_ROCE_V1
         THEN [ok |-> TRUE, err |-> NoError, gid_type |->
                  CASE port_attr.link_layer = "InfiniBand" -> IB
                    [] port_attr.link_layer = "Ethernet" -> RoCEv1
                    [] OTHER -> Other(trim(slot.content))]
         ELSE IF slot.content = GID_TYPE_ROCE_V2
         THEN [ok |-> TRUE, err |-> NoError, gid_type |-> RoCEv2]
         ELSE [ok |-> TRUE, err |-> NoError, gid_type |-> Other(trim(slot.content))]
    ELSE [ok |-> FALSE, err |-> Error_new("IBQueryGidTypeFail", "io error"),
          gid_type |-> Other(<<>>)]

\* ------------------------------------------------------------- device.rs
\* collect_port_gids leaving the loop (break) when the type file of an
\* address cannot be read, instead of going on with the next index.
RECURSIVE collect_port_gids_from_BreakOnTypeFail(_, _, _, _, _, _, _)
collect_port_gids_from_BreakOnTypeFail(ctx, port_num, port_attr, slots, config, gid_index, acc) ==
    IF gid_index >= port_attr.gid_tbl_len
    THEN acc
    ELSE LET slot == slots[gid_index + 1]
             g == query_gid(slot)
             t == query_gid_type(slot, port_attr)
             cq == Call("ibv_query_gid", ctx, port_num, gid_index, g.ok)
             ct == Call("read_gid_type", ctx, port_num, gid_index, t.ok)
             next(a) == collect_port_gids_from_BreakOnTypeFail(ctx, port_num, port_attr,
                            slots, config, gid_index + 1, a)
         IN  IF ~g.ok
             THEN next([acc EXCEPT !.calls = @ \o <<cq>>])
             ELSE IF ~t.ok
             THEN [acc EXCEPT !.calls = @ \o <<cq, ct>>]
             ELSE IF config.gid_type_filter # {}
                     /\ t.gid_type \notin config.gid_type_filter
             THEN next([acc EXCEPT !.calls = @ \o <<cq, ct>>])
             ELSE IF config.roce_v2_skip_link_local_addr /\ t.gid_type = RoCEv2
                     /\ is_unicast_link_local(g.gid)
             THEN next([acc EXCEPT !.calls = @ \o <<cq, ct>>])
             ELSE next([calls |-> acc.calls \o <<cq, ct>>,
                        gids |-> Append(acc.gids,
                                   [index |-> gid_index, gid |-> g.gid,
                                    gid_type |-> t.gid_type])])

\* collect_port_gids comparing only the tag of the type with the filter, so
\* that any Other(..) in the filter admits every Other(..).
RECURSIVE collect_port_gids_from_TagOnlyFilter(_, _, _, _, _, _, _)
collect_port_gids_from_TagOnlyFilter(ctx, port_num, port_attr, slots, config, gid_index, acc) ==
    IF gid_index >= port_attr.gid_tbl_len
    THEN acc
    ELSE LET slot == slots[gid_index + 1]
             g == query_gid(slot)
             t == query_gid_type(slot, port_attr)
             cq == Call("ibv_query_gid", ctx, port_num, gid_index, g.ok)
             ct == Call("read_gid_type", ctx, port_num, gid_index, t.ok)
             next(a) == collect_port_gids_from_TagOnlyFilter(ctx, port_num, port_attr, slots,
                                               config, gid_index + 1, a)
         IN  IF ~g.ok
             THEN next([acc EXCEPT !.calls = @ \o <<cq>>])
             ELSE IF ~t.ok
             THEN next([acc EXCEPT !.calls = @ \o <<cq, ct>>])
             ELSE IF config.gid_type_filter # {}
                     /\ t.gid_type.tag \notin {f.tag : f \in config.gid_type_filter}
             THEN next([acc EXCEPT !.calls = @ \o <<cq, ct>>])
             ELSE IF config.roce_v2_skip_link_local_addr /\ t.gid_type = RoCEv2
                     /\ is_unicast_link_local(g.gid)
             THEN next([acc EXCEPT !.calls = @ \o <<cq, ct>>])
             ELSE next([calls |-> acc.calls \o <<cq, ct>>,
                        gids |-> Append(acc.gids,
                                   [index |-> gid_index, gid |-> g.gid,
                                    gid_type |-> t.gid_type])])

\* collect_port_gids dropping a link-local address of any type when the
\* flag is set.
RECURSIVE collect_port_gids_from_SkipAnyLinkLocal(_, _, _, _, _, _, _)
collect_port_gids_from_SkipAnyLinkLocal(ctx, port_num, port_attr, slots, config, gid_index, acc) ==
    IF gid_index >= port_attr.gid_tbl_len
    THEN acc
    ELSE LET slot == slots[gid_index + 1]
             g == query_gid(slot)
             t == query_gid_type(slot, port_attr)
             cq == Call("ibv_query_gid", ctx, port_num, gid_index, g.ok)
             ct == Call("read_gid_type", ctx, port_num, gid_index, t.ok)
             next(a) == collect_port_gids_from_SkipAnyLinkLocal(ctx, port_num, port_attr, slots,
                                               config, gid_index + 1, a)
         IN  IF ~g.ok
             THEN next([acc EXCEPT !.calls = @ \o <<cq>>])
             ELSE IF ~t.ok
             THEN next([acc EXCEPT !.calls = @ \o <<cq, ct>>])
             ELSE IF config.gid_type_filter # {}
                     /\ t.gid_type \notin config.gid_type_filter
             THEN next([acc EXCEPT !.calls = @ \o <<cq, ct>>])
             ELSE IF config.roce_v2_skip_link_local_addr
                     /\ is_unicast_link_local(g.gid)
             THEN next([acc EXCEPT !.calls = @ \o <<cq, ct>>])
             ELSE next([calls |-> acc.calls \o <<cq, ct>>,
                        gids |-> Append(acc.gids,
                                   [index |-> gid_index, gid |-> g.gid,
                                    gid_type |-> t.gid_type])])

\* collect_port_gids without the link-local check.
RECURSIVE collect_port_gids_from_IgnoreLinkLocalFlag(_, _, _, _, _, _, _)
collect_port_gids_from_IgnoreLinkLocalFlag(ctx, port_num, port_attr, slots, config, gid_index, acc) ==
    IF gid_index >= port_attr.gid_tbl_len
    THEN acc
    ELSE LET slot == slots[gid_index + 1]
             g == query_gid(slot)
             t == query_gid_type(slot, port_attr)
             cq == Call("ibv_query_gid", ctx, port_num, gid_index, g.ok)
             ct == Call("read_gid_type", ctx, port_num, gid_index, t.ok)
             next(a) == collect_port_gids_from_IgnoreLinkLocalFlag(ctx, port_num, port_attr, slots,
                                               config, gid_index + 1, a)
         IN  IF ~g.ok
             THEN next([acc EXCEPT !.calls = @ \o <<cq>>])
             ELSE IF ~t.ok
             THEN next([acc EXCEPT !.calls = @ \o <<cq, ct>>])
             ELSE IF config.gid_type_filter # {}
                     /\ t.gid_type \notin config.gid_type_filter
             THEN next([acc EXCEPT !.calls = @ \o <<cq, ct>>])
             ELSE IF FALSE
             THEN next([acc EXCEPT !.calls = @ \o <<cq, ct>>])
             ELSE next([calls |-> acc.calls \o <<cq, ct>>,
                        gids |-> Append(acc.gids,
                                   [index |-> gid_index, gid |-> g.gid,
                                    gid_type |-> t.gid_type])])

\* collect_port_gids leaving the loop at the first RoCE v2 link-local
\* address it skips.
RECURSIVE collect_port_gids_from_BreakOnLinkLocal(_, _, _, _, _, _, _)
collect_port_gids_from_BreakOnLinkLocal(ctx, port_num, port_attr, slots, config, gid_index, acc) ==
    IF gid_index >= port_attr.gid_tbl_len
    THEN acc
    ELSE LET slot == slots[gid_index + 1]
             g == query_gid(slot)
             t == query_gid_type(slot, port_attr)
             cq == Call("ibv_query_gid", ctx, port_num, gid_index, g.ok)
             ct == Call("read_gid_type", ctx, port_num, gid_index, t.ok)
             next(a) == collect_port_gids_from_BreakOnLinkLocal(ctx, port_num, port_attr, slots,
                                               config, gid_index + 1, a)
         IN  IF ~g.ok
             THEN next([acc EXCEPT !.calls = @ \o <<cq>>])
             ELSE IF ~t.ok
             THEN next([acc EXCEPT !.calls = @ \o <<cq, ct>>])
             ELSE IF config.gid_type_filter # {}
                     /\ t.gid_type \notin config.gid_type_filter
             THEN next([acc EXCEPT !.calls = @ \o <<cq, ct>>])
             ELSE IF config.roce_v2_skip_link_local_addr /\ t.gid_type = RoCEv2
                     /\ is_unicast_link_local(g.gid)
             THEN [acc EXCEPT !.calls = @ \o <<cq, ct>>]
             ELSE next([calls |-> acc.calls \o <<cq, ct>>,
                        gids |-> Append(acc.gids,
                                   [index |-> gid_index, gid |-> g.gid,
                                    gid_type |-> t.gid_type])])

\* collect_port_gids storing the position in the list of kept addresses as
\* the index of an address.
RECURSIVE collect_port_gids_from_PositionIndex(_, _, _, _, _, _, _)
collect_port_gids_from_PositionIndex(ctx, port_num, port_attr, slots, config, gid_index, acc) ==
    IF gid_index >= port_attr.gid_tbl_len
    THEN acc
    ELSE LET slot == slots[gid_index + 1]
             g == query_gid(slot)
             t == query_gid_type(slot, port_attr)
             cq == Call("ibv_query_gid", ctx, port_num, gid_index, g.ok)
             ct == Call("read_gid_type", ctx, port_num, gid_index, t.ok)
             next(a) == collect_port_gids_from_PositionIndex(ctx, port_num, port_attr, slots,
                                               config, gid_index + 1, a)
         IN  IF ~g.ok
             THEN next([acc EXCEPT !.calls = @ \o <<cq>>])
             ELSE IF ~t.ok
             THEN next([acc EXCEPT !.calls = @ \o <<cq, ct>>])
             ELSE IF config.gid_type_filter # {}
                     /\ t.gid_type \notin config.gid_type_filter
             THEN next([acc EXCEPT !.calls = @ \o <<cq, ct>>])
             ELSE IF config.roce_v2_skip_link_local_addr /\ t.gid_type = RoCEv2
                     /\ is_unicast_link_local(g.gid)
             THEN next([acc EXCEPT !.calls = @ \o <<cq, ct>>])
             ELSE next([calls |-> acc.calls \o <<cq, ct>>,
                        gids |-> Append(acc.gids,
                                   [index |-> Len(acc.gids), gid |-> g.gid,
                                    gid_type |-> t.gid_type])])

\* Device::collect_port_gids: the loop over the address table from gid_index
\* on; acc holds the verbs calls issued and the addresses kept so far.
RECURSIVE collect_port_gids_from(_, _, _, _, _, _, _)
collect_port_gids_from(ctx, port_num, port_attr, slots, config, gid_index, acc) ==
    IF gid_index >= port_attr.gid_tbl_len
    THEN acc
    ELSE LET slot == slots[gid_index + 1]
             g == query_gid(slot)
             t == query_gid_type(slot, port_attr)
             cq == Call("ibv_query_gid", ctx, port_num, gid_index, g.ok)
             ct == Call("read_gid_type", ctx, port_num, gid_index, t.ok)
             next(a) == collect_port_gids_from(ctx, port_num, port_attr, slots,
                                               config, gid_index + 1, a)
         IN  IF ~g.ok
             THEN next([acc EXCEPT !.calls = @ \o <<cq>>])
             ELSE IF ~t.ok
             THEN next([acc EXCEPT !.calls = @ \o <<cq, ct>>])
             ELSE IF config.gid_type_filter # {}
                     /\ t.gid_type \notin config.gid_type_filter
             THEN next([acc EXCEPT !.calls = @ \o <<cq, ct>>])
             ELSE IF config.roce_v2_skip_link_local_addr /\ t.gid_type = RoCEv2
                     /\ is_unicast_link_local(g.gid)
             THEN next([acc EXCEPT !.calls = @ \o <<cq, ct>>])
             ELSE next([calls |-> acc.calls \o <<cq, ct>>,
                        gids |-> Append(acc.gids,
                                   [index |-> gid_index, gid |-> g.gid,
                                    gid_type |-> t.gid_type])])

collect_port_gids(ctx, port_num, port_attr, slots, config) ==
    collect_port_gids_from(ctx, port_num, port_attr, slots, config, 0,
                           [calls |-> <<>>, gids |-> <<>>])

\* What ibv_query_port reports for a port of the hardware.
PortAttr(hwport) ==
    [state |-> hwport.state, link_layer |-> hwport.link_layer,
     gid_tbl_len |-> Len(hwport.gids)]

\* What ibv_query_device reports for a device of the hardware.
DeviceAttr(hwdev) == [phys_port_cnt |-> Len(hwdev.ports)]

\* ibv_device_attr::default()
DefaultDeviceAttr == [phys_port_cnt |-> 0]

\* The points at which a verbs call of Device::open / update_attr can fail.
NoFail == [at |-> "none", port |-> 0]
FailPoints(maxPort) ==
    {NoFail, [at |-> "ibv_open_device", port |-> 0],
     [at |-> "ibv_alloc_pd", port |-> 0],
     [at |-> "ibv_query_device", port |-> 0]}
    \cup {[at |-> "ibv_query_port", port |-> p] : p \in 1..maxPort}

\* update_attr absorbing a failed port query: the port is skipped and the
\* loop goes on (`let Ok(..) = .. else { continue }` instead of `?`).
RECURSIVE update_attr_from_SkipFailedPort(_, _, _, _, _, _)
update_attr_from_SkipFailedPort(ctx, hwdev, config, fail, port_num, acc) ==
    IF port_num > DeviceAttr(hwdev).phys_port_cnt
    THEN [ok |-> TRUE, err |-> NoError, calls |-> acc.calls, ports |-> acc.ports]
    ELSE IF fail.at = "ibv_query_port" /\ fail.port = port_num
    THEN update_attr_from_SkipFailedPort(ctx, hwdev, config, fail, port_num + 1,
            [acc EXCEPT !.calls = Append(@, Call("ibv_query_port", ctx, port_num, 0, FALSE))])
    ELSE LET hwport == hwdev.ports[port_num]
             port_attr == PortAttr(hwport)
             cp == Call("ibv_query_port", ctx, port_num, 0, TRUE)
         IN  IF port_attr.state # IBV_PORT_ACTIVE /\ config.skip_inactive_port
             THEN update_attr_from_SkipFailedPort(ctx, hwdev, config, fail, port_num + 1,
                                   [acc EXCEPT !.calls = Append(@, cp)])
             ELSE LET g == collect_port_gids(ctx, port_num, port_attr,
                                             hwport.gids, config)
                  IN  update_attr_from_SkipFailedPort(ctx, hwdev, config, fail, port_num + 1,
                          [calls |-> Append(acc.calls, cp) \o g.calls,
                           ports |-> Append(acc.ports,
                                       [port_num |-> port_num,
                                        port_attr |-> port_attr,
                                        gids |-> g.gids])])

\* update_attr keeping an inactive port as a Port without addresses instead
\* of omitting it.
RECURSIVE update_attr_from_EmptyInactive(_, _, _, _, _, _)
update_attr_from_EmptyInactive(ctx, hwdev, config, fail, port_num, acc) ==
    IF port_num > DeviceAttr(hwdev).phys_port_cnt
    THEN [ok |-> TRUE, err |-> NoError, calls |-> acc.calls, ports |-> acc.ports]
    ELSE IF fail.at = "ibv_query_port" /\ fail.port = port_num
    THEN [ok |-> FALSE, err |-> with_errno("IBQueryPortFail"),
          calls |-> Append(acc.calls, Call("ibv_query_port", ctx, port_num, 0, FALSE)),
          ports |-> acc.ports]
    ELSE LET hwport == hwdev.ports[port_num]
             port_attr == PortAttr(hwport)
             cp == Call("ibv_query_port", ctx, port_num, 0, TRUE)
         IN  IF port_attr.state # IBV_PORT_ACTIVE /\ config.skip_inactive_port
             THEN update_attr_from_EmptyInactive(ctx, hwdev, config, fail, port_num + 1,
                          [calls |-> Append(acc.calls, cp),
                           ports |-> Append(acc.ports,
                                       [port_num |-> port_num,
                                        port_attr |-> port_attr,
                                        gids |-> <<>>])])
             ELSE LET g == collect_port_gids(ctx, port_num, port_attr,
                                             hwport.gids, config)
                  IN  update_attr_from_EmptyInactive(ctx, hwdev, config, fail, port_num + 1,
                          [calls |-> Append(acc.calls, cp) \o g.calls,
                           ports |-> Append(acc.ports,
                                       [port_num |-> port_num,
                                        port_attr |-> port_attr,
                                        gids |-> g.gids])])

\* Device::update_attr: the loop over the ports from port_num on.
RECURSIVE update_attr_from(_, _, _, _, _, _)
update_attr_from(ctx, hwdev, config, fail, port_num, acc) ==
    IF port_num > DeviceAttr(hwdev).phys_port_cnt
    THEN [ok |-> TRUE, err |-> NoError, calls |-> acc.calls, ports |-> acc.ports]
    ELSE IF fail.at = "ibv_query_port" /\ fail.port = port_num
    THEN [ok |-> FALSE, err |-> with_errno("IBQueryPortFail"),
          calls |-> Append(acc.calls, Call("ibv_query_port", ctx, port_num, 0, FALSE)),
          ports |-> acc.ports]
    ELSE LET hwport == hwdev.ports[port_num]
             port_attr == PortAttr(hwport)
             cp == Call("ibv_query_port", ctx, port_num, 0, TRUE)
         IN  IF port_attr.state # IBV_PORT_ACTIVE /\ config.skip_inactive_port
             THEN update_attr_from(ctx, hwdev, config, fail, port_num + 1,
                                   [acc EXCEPT !.calls = Append(@, cp)])
             ELSE LET g == collect_port_gids(ctx, port_num, port_attr,
                                             hwport.gids, config)
                  IN  update_attr_from(ctx, hwdev, config, fail, port_num + 1,
                          [calls |-> Append(acc.calls, cp) \o g.calls,
                           ports |-> Append(acc.ports,
                                       [port_num |-> port_num,
                                        port_attr |-> port_attr,
                                        gids |-> g.gids])])

\* update_attr releasing and re-acquiring the context and the protection
\* domain of the device before it queries.
update_attr_Reopen(this, hwdev, config, fail) ==
    LET reopen == <<Call("ibv_dealloc_pd", this.protection_domain, 0, 0, TRUE),
                    Call("ibv_close_device", this.context, 0, 0, TRUE),
                    Call("ibv_open_device", this.device, 0, 0, TRUE),
                    Call("ibv_alloc_pd", this.context, 0, 0, TRUE)>>
    IN  IF fail.at = "ibv_query_device"
        THEN [ok |-> FALSE, err |-> with_errno("IBQueryDeviceFail"),
              calls |-> reopen \o <<Call("ibv_query_device", this.context, 0, 0, FALSE)>>,
              this |-> this]
        ELSE LET r == update_attr_from(this.context, hwdev, config, fail, 1,
                         [calls |-> reopen \o <<Call("ibv_query_device", this.context, 0, 0, TRUE)>>,
                          ports |-> <<>>])
             IN  IF r.ok
                 THEN [ok |-> TRUE, err |-> NoError, calls |-> r.calls,
                       this |-> [this EXCEPT !.info.device_attr = DeviceAttr(hwdev),
                                             !.info.ports = r.ports]]
                 ELSE [ok |-> FALSE, err |-> r.err, calls |-> r.calls, this |-> this]

\* update_attr storing the device attributes and the ports collected so far
\* before it returns the error of a port query.
update_attr_PartialOnFail(this, hwdev, config, fail) ==
    IF fail.at = "ibv_query_device"
    THEN [ok |-> FALSE, err |-> with_errno("IBQueryDeviceFail"),
          calls |-> <<Call("ibv_query_device", this.context, 0, 0, FALSE)>>,
          this |-> this]
    ELSE LET r == update_attr_from(this.context, hwdev, config, fail, 1,
                     [calls |-> <<Call("ibv_query_device", this.context, 0, 0, TRUE)>>,
                      ports |-> <<>>])
         IN  [ok |-> r.ok, err |-> r.err, calls |-> r.calls,
              this |-> [this EXCEPT !.info.device_attr = DeviceAttr(hwdev),
                                    !.info.ports = r.ports]]

\* Device::update_attr on the device `this`: the calls it issues, its result
\* and the device after it.
update_attr(this, hwdev, config, fail) ==
    IF fail.at = "ibv_query_device"
    THEN [ok |-> FALSE, err |-> with_errno("IBQueryDeviceFail"),
          calls |-> <<Call("ibv_query_device", this.context, 0, 0, FALSE)>>,
          this |-> this]
    ELSE LET r == update_attr_from(this.context, hwdev, config, fail, 1,
                     [calls |-> <<Call("ibv_query_device", this.context, 0, 0, TRUE)>>,
                      ports |-> <<>>])
         IN  IF r.ok
             THEN [ok |-> TRUE, err |-> NoError, calls |-> r.calls,
                   this |-> [this EXCEPT !.info.device_attr = DeviceAttr(hwdev),
                                         !.info.ports = r.ports]]
             ELSE [ok |-> FALSE, err |-> r.err, calls |-> r.calls, this |-> this]

\* Device::index
Device_index(this) == this.info.index

\* impl Drop for RawContext
DropRawContext(ctx) == <<Call("ibv_close_device", ctx, 0, 0, TRUE)>>

\* impl Drop for RawProtectionDomain
DropRawProtectionDomain(pd) == <<Call("ibv_dealloc_pd", pd, 0, 0, TRUE)>>

\* DropDevice with the fields declared context first.
DropDevice_ContextFirst(this) ==
    DropRawContext(this.context) \o DropRawProtectionDomain(this.protection_domain)

\* Dropping a Device drops its fields in declaration order:
\* protection_domain, then context.
DropDevice(this) ==
    DropRawProtectionDomain(this.protection_domain) \o DropRawContext(this.context)

\* Device::open holding the context as a bare pointer until `this` is built:
\* a failed PD allocation returns without closing it.
DeviceOpen_BareContext(raw, hwdev, index, config, fail) ==
    LET copen(b) == Call("ibv_open_device", raw, 0, 0, b)
        calloc(b) == Call("ibv_alloc_pd", raw, 0, 0, b)
        this == [protection_domain |-> raw, context |-> raw, device |-> raw,
                 info |-> [index |-> index, name |-> hwdev.name,
                           guid |-> hwdev.guid, ibdev_path |-> hwdev.ibdev_path,
                           device_attr |-> DefaultDeviceAttr, ports |-> <<>>]]
        u == update_attr(this, hwdev, config, fail)
    IN  IF fail.at = "ibv_open_device"
        THEN [ok |-> FALSE, err |-> with_errno("IBOpenDeviceFail"),
              calls |-> <<copen(FALSE)>>, this |-> this]
        ELSE IF fail.at = "ibv_alloc_pd"
        THEN [ok |-> FALSE, err |-> with_errno("IBAllocPDFail"),
              calls |-> <<copen(TRUE), calloc(FALSE)>>, this |-> this]
        ELSE IF ~u.ok
        THEN [ok |-> FALSE, err |-> u.err,
              calls |-> <<copen(TRUE), calloc(TRUE)>> \o u.calls \o DropDevice(this),
              this |-> this]
        ELSE [ok |-> TRUE, err |-> NoError,
              calls |-> <<copen(TRUE), calloc(TRUE)>> \o u.calls,
              this |-> u.this]

\* Device::open without the `?` on update_attr: the device is returned even
\* though its first query failed.
DeviceOpen_IgnoreUpdateErr(raw, hwdev, index, config, fail) ==
    LET copen(b) == Call("ibv_open_device", raw, 0, 0, b)
        calloc(b) == Call("ibv_alloc_pd", raw, 0, 0, b)
        this == [protection_domain |-> raw, context |-> raw, device |-> raw,
                 info |-> [index |-> index, name |-> hwdev.name,
                           guid |-> hwdev.guid, ibdev_path |-> hwdev.ibdev_path,
                           device_attr |-> DefaultDeviceAttr, ports |-> <<>>]]
        u == update_attr(this, hwdev, config, fail)
    IN  IF fail.at = "ibv_open_device"
        THEN [ok |-> FALSE, err |-> with_errno("IBOpenDeviceFail"),
              calls |-> <<copen(FALSE)>>, this |-> this]
        ELSE IF fail.at = "ibv_alloc_pd"
        THEN [ok |-> FALSE, err |-> with_errno("IBAllocPDFail"),
              calls |-> <<copen(TRUE), calloc(FALSE)>> \o DropRawContext(raw),
              this |-> this]
        ELSE [ok |-> TRUE, err |-> NoError,
              calls |-> <<copen(TRUE), calloc(TRUE)>> \o u.calls,
              this |-> u.this]

\* Device::open(device, index, config), device being entry `raw` of the list.
\* A context handle and a PD handle are named by the raw entry they were
\* obtained for.
DeviceOpen(raw, hwdev, index, config, fail) ==
    LET copen(b) == Call("ibv_open_device", raw, 0, 0, b)
        calloc(b) == Call("ibv_alloc_pd", raw, 0, 0, b)
        this == [protection_domain |-> raw, context |-> raw, device |-> raw,
                 info |-> [index |-> index, name |-> hwdev.name,
                           guid |-> hwdev.guid, ibdev_path |-> hwdev.ibdev_path,
                           device_attr |-> DefaultDeviceAttr, ports |-> <<>>]]
        u == update_attr(this, hwdev, config, fail)
    IN  IF fail.at = "ibv_open_device"
        THEN [ok |-> FALSE, err |-> with_errno("IBOpenDeviceFail"),
              calls |-> <<copen(FALSE)>>, this |-> this]
        ELSE IF fail.at = "ibv_alloc_pd"
        THEN [ok |-> FALSE, err |-> with_errno("IBAllocPDFail"),
              calls |-> <<copen(TRUE), calloc(FALSE)>> \o DropRawContext(raw),
              this |-> this]
        ELSE IF ~u.ok
        THEN [ok |-> FALSE, err |-> u.err,
              calls |-> <<copen(TRUE), calloc(TRUE)>> \o u.calls \o DropDevice(this),
              this |-> this]
        ELSE [ok |-> TRUE, err |-> NoError,
              calls |-> <<copen(TRUE), calloc(TRUE)>> \o u.calls,
              this |-> u.this]

\* ------------------------------------------------------------- hardware
SeqsUpTo(S, n) == UNION {[1..k -> S] : k \in 0..n}

Injective(f) == \A i, j \in DOMAIN f : f[i] = f[j] => i = j

\* An address-table entry: what ibv_query_gid returns for it and the sysfs
\* type file that belongs to it.
Slot(ret, gid, readable, content) ==
    [ret |-> ret, gid |-> gid, readable |-> readable, content |-> content]

SlotIB == Slot(0, GidGlobal, TRUE, GID_TYPE_IB_ROCE_V1)
SlotV2 == Slot(0, GidGlobal, TRUE, GID_TYPE_ROCE_V2)
SlotV2LinkLocal == Slot(0, GidLinkLocal, TRUE, GID_TYPE_ROCE_V2)

\* The entries of the address tables of SpecGids: a failing query, an
\* unreadable type file, and addresses of every classification.
Slots ==
    {Slot(-1, GidZero, FALSE, <<>>),
     Slot(0, GidGlobal, FALSE, <<>>),
     SlotIB, SlotV2, SlotV2LinkLocal,
     Slot(0, GidGlobal, TRUE, <<"R","o","C","E"," ","v","3","\n">>)}

HwPort(state, link_layer, gids) ==
    [state |-> state, link_layer |-> link_layer, gids |-> gids]

\* A raw device of the list: what ibv_get_device_name, ibv_get_device_guid,
\* ibdev_path and the queries report for it.
HwDevice(name, ports) ==
    [name |-> name, guid |-> <<"guid", name>>,
     ibdev_path |-> <<"/sys/class/infiniband", name>>, ports |-> ports]

\* Spec: up to MaxDevices devices with distinct names, each with up to
\* DevPorts active InfiniBand ports holding one address.
HwDevices ==
    {h \in SeqsUpTo({HwDevice(n, [p \in 1..k |-> HwPort(IBV_PORT_ACTIVE, "InfiniBand", <<SlotIB>>)]) :
                        n \in Names, k \in 0..DevPorts}, MaxDevices) :
        Injective([i \in DOMAIN h |-> h[i].name])}

\* SpecPorts: no device, or one device with up to MaxPorts Ethernet ports,
\* each active or down, each with PortGids RoCE v2 addresses of which the
\* first is link-local.
HwPorts ==
    {<<>>} \cup
    {<<HwDevice("mlx5_0", ps)>> :
        ps \in SeqsUpTo({HwPort(st, "Ethernet",
                                [i \in 1..PortGids |->
                                    IF i = 1 THEN SlotV2LinkLocal ELSE SlotV2]) :
                            st \in PortStates}, MaxPorts)}

\* SpecGids: no device, or one device with one active port of any link
\* layer and an address table of up to MaxGids entries.
HwGids ==
    {<<>>} \cup
    {<<HwDevice("mlx5_0", <<HwPort(IBV_PORT_ACTIVE, ll, gs)>>)>> :
        ll \in LinkLayers, gs \in SeqsUpTo(Slots, MaxGids)}

\* Addresses around the edge of fe80::/10: febf:: is the last link-local
\* prefix, fec0:: the first one outside.
GidLinkLocalTop == <<65215, 0, 0, 0, 0, 0, 0, 1>>
GidSiteLocal == <<65216, 0, 0, 0, 0, 0, 0, 1>>

\* The content of a type file that holds neither sentinel.
UnknownType == <<"R","o","C","E"," ","v","3","\n">>

SlotIBLinkLocal == Slot(0, GidLinkLocal, TRUE, GID_TYPE_IB_ROCE_V1)
SlotV2LinkLocalTop == Slot(0, GidLinkLocalTop, TRUE, GID_TYPE_ROCE_V2)
SlotV2SiteLocal == Slot(0, GidSiteLocal, TRUE, GID_TYPE_ROCE_V2)
SlotOther == Slot(0, GidGlobal, TRUE, UnknownType)
SlotOtherLinkLocal == Slot(0, GidLinkLocal, TRUE, UnknownType)

\* The entries of the address tables of SpecFilters: every entry can be
\* queried and classified; the types and the addresses vary.
FilterSlots ==
    {SlotIB, SlotIBLinkLocal, SlotV2LinkLocal, SlotV2LinkLocalTop,
     SlotV2SiteLocal, SlotOther, SlotOtherLinkLocal}

\* SpecFilters: no device, or one device with one active port of any link
\* layer and an address table of up to MaxGids entries of FilterSlots.
HwFilters ==
    {<<>>} \cup
    {<<HwDevice("mlx5_0", <<HwPort(IBV_PORT_ACTIVE, ll, gs)>>)>> :
        ll \in LinkLayers, gs \in SeqsUpTo(FilterSlots, MaxGids)}

\* SpecScenario: no device, or one device with two ports.  Port 1 is an
\* active InfiniBand port with two addresses, one with the IB/RoCE v1 type
\* file and one RoCE v2 link-local, in either order; port 2 is down or
\* active and has up to PortGids addresses.
HwScenario ==
    {<<>>} \cup
    {<<HwDevice("mlx5_0", <<HwPort(IBV_PORT_ACTIVE, "InfiniBand", g1),
                            HwPort(st, ll, g2)>>)>> :
        g1 \in {<<SlotIB, SlotV2LinkLocal>>, <<SlotV2LinkLocal, SlotIB>>},
        st \in PortStates, ll \in {"InfiniBand", "Ethernet"},
        g2 \in SeqsUpTo({SlotIB, SlotV2LinkLocal}, PortGids)}

\* Addresses with one zero half: fe80:: has a subnet prefix and a zero
\* interface ID, ::1 a zero prefix and an interface ID.
GidPrefixOnly == <<65152, 0, 0, 0, 0, 0, 0, 0>>
GidInterfaceOnly == <<0, 0, 0, 0, 0, 0, 0, 1>>

\* The entries of the address tables of SpecNullGid: the call succeeds for
\* an all-zero address, for the two addresses above and for a global one,
\* or it fails.
NullSlots ==
    {Slot(0, GidZero, TRUE, GID_TYPE_ROCE_V2),
     Slot(0, GidPrefixOnly, TRUE, GID_TYPE_IB_ROCE_V1),
     Slot(0, GidInterfaceOnly, TRUE, GID_TYPE_ROCE_V2),
     Slot(-1, GidGlobal, TRUE, GID_TYPE_ROCE_V2),
     SlotV2}

\* SpecNullGid: no device, or one device with one active port of any link
\* layer and an address table of up to MaxGids entries of NullSlots.
HwNullGid ==
    {<<>>} \cup
    {<<HwDevice("mlx5_0", <<HwPort(IBV_PORT_ACTIVE, ll, gs)>>)>> :
        ll \in LinkLayers, gs \in SeqsUpTo(NullSlots, MaxGids)}

\* ------------------------------------------------------------- config
GidTypeFilters == {{}, {RoCEv2}}

\* The address-type filters of SpecFilters: empty, one type, two types, and
\* filters that hold an Other(..) with a payload.
TypeFilters ==
    {{}, {RoCEv2}, {IB, RoCEv1},
     {Other(<<"R","o","C","E"," ","v","3">>)},
     {Other(<<"I","B","/","R","o","C","E"," ","v","1">>), RoCEv2}}

DeviceConfig(device_filter, gid_type_filter, skip_inactive_port, skip_link_local) ==
    [device_filter |-> device_filter, gid_type_filter |-> gid_type_filter,
     skip_inactive_port |-> skip_inactive_port,
     roce_v2_skip_link_local_addr |-> skip_link_local]

\* DeviceConfig::default()
DefaultConfig == DeviceConfig({}, {}, FALSE, FALSE)

Configs(filters) ==
    {DeviceConfig(df, gf, si, sl) :
        df \in filters, gf \in GidTypeFilters, si \in BOOLEAN, sl \in BOOLEAN}

\* ------------------------------------------------------------- state
VARIABLES
    hw,        \* the hardware: the raw device list and what the queries report
    config,    \* the DeviceConfig handed to Devices::open
    refresh,   \* the DeviceConfig handed to update_attr
    pc,        \* "start", "loop" (inside Devices::open), "returned", "dropped"
    list,      \* the RawDeviceList wrapper: "none", "live", "dropped"
    cursor,    \* position of the for loop of Devices::open in the raw list
    devices,   \* the Vec<Arc<Device>> being built, then the returned Devices
    result,    \* what Devices::open returned
    calls,     \* every Verbs Interface / sysfs call issued so far, in order
    updates,   \* number of update_attr calls made on returned devices
    snapcfg,   \* per device: the configuration its snapshot was taken under
    last,      \* the last operation: its name, device, configuration, outcome
    arg,       \* the argument of a call of a function of src/types or raw.rs
    text,      \* the textual form produced by Display / handed to Deserialize
    ret        \* what the call returned

vars == <<hw, config, refresh, pc, list, cursor, devices, result, calls, updates, snapcfg, last,
          arg, text, ret>>

Pending == [ok |-> FALSE, err |-> NoError]

\* The variables of the device enumeration pipeline.
devvars == <<hw, config, refresh, pc, list, cursor, devices, result, calls, updates, snapcfg, last>>

\* No function of src/types or raw.rs is being called on its own.
NoArg == [fn |-> "none"]
NotCalled == [done |-> FALSE]

LastOp(op, dev, cfg, err) ==
    [op |-> op, dev |-> dev, config |-> cfg, ok |-> err = NoError, err |-> err]

InitWith(hws, cfgs) ==
    /\ hw \in hws
    /\ config \in cfgs
    /\ pc = "start"
    /\ list = "none"
    /\ cursor = 0
    /\ devices = <<>>
    /\ result = Pending
    /\ calls = <<>>
    /\ updates = 0
    /\ snapcfg = <<>>
    /\ last = LastOp("none", 0, DefaultConfig, NoError)
    /\ arg = NoArg
    /\ text = <<>>
    /\ ret = NotCalled

\* Spec: the name filter varies; update_attr is given the configuration of
\* Devices::open or one with every port and address filter switched on.
Init ==
    /\ InitWith(HwDevices, {DeviceConfig(df, {}, FALSE, FALSE) : df \in DeviceFilters})
    /\ refresh \in {config, DeviceConfig(config.device_filter, {RoCEv2}, TRUE, TRUE)}

\* SpecPorts: every configuration, for Devices::open and for update_attr.
InitPorts ==
    /\ InitWith(HwPorts, Configs({{}, {"mlx5_9"}}))
    /\ refresh \in Configs({config.device_filter})

\* SpecGids: every address filter; update_attr is given the configuration
\* of Devices::open or the default one.
InitGids ==
    /\ InitWith(HwGids, {DeviceConfig(df, gf, FALSE, sl) :
                            df \in {{}, {"mlx5_9"}}, gf \in GidTypeFilters,
                            sl \in BOOLEAN})
    /\ refresh \in {config, DefaultConfig}

\* SpecFilters: every address-type filter, the link-local flag set or not;
\* update_attr is given the configuration of Devices::open or the same
\* configuration with the link-local flag flipped.
InitFilters ==
    /\ InitWith(HwFilters,
                {DeviceConfig({}, gf, FALSE, sl) : gf \in TypeFilters, sl \in BOOLEAN}
                \cup {DeviceConfig({"mlx5_9"}, {}, FALSE, FALSE)})
    /\ refresh \in {config, [config EXCEPT !.roce_v2_skip_link_local_addr = ~@]}

\* SpecScenario: every configuration; update_attr is given the configuration
\* of Devices::open.
InitScenario ==
    /\ InitWith(HwScenario, Configs({{}, {"mlx5_9"}}))
    /\ refresh = config

\* SpecNullGid: no address filter or the RoCE v2 filter; update_attr is
\* given the configuration of Devices::open.
InitNullGid ==
    /\ InitWith(HwNullGid,
                {DeviceConfig({}, gf, FALSE, FALSE) : gf \in GidTypeFilters}
                \cup {DeviceConfig({"mlx5_9"}, {}, FALSE, FALSE)})
    /\ refresh = config

\* The pipeline at rest: Devices::open is not called.
DevicesIdle ==
    /\ hw = <<>>
    /\ config = DefaultConfig
    /\ refresh = DefaultConfig
    /\ pc = "start"
    /\ list = "none"
    /\ cursor = 0
    /\ devices = <<>>
    /\ result = Pending
    /\ calls = <<>>
    /\ updates = 0
    /\ snapcfg = <<>>
    /\ last = LastOp("none", 0, DefaultConfig, NoError)

\* Dropping a Vec<Arc<Device>> whose Arcs are the only holders drops the
\* devices front to back.
RECURSIVE DropDevices(_)
DropDevices(ds) ==
    IF ds = <<>> THEN <<>> ELSE DropDevice(Head(ds)) \o DropDevices(Tail(ds))

\* impl Drop for RawDeviceList
DropRawDeviceList == <<Call("ibv_free_device_list", 0, 0, 0, TRUE)>>

\* RawDeviceList::available: ibv_get_device_list returns null.
GetListFail ==
    /\ pc = "start"
    /\ calls' = Append(calls, Call("ibv_get_device_list", 0, 0, 0, FALSE))
    /\ result' = [ok |-> FALSE, err |-> with_errno("IBGetDeviceListFail")]
    /\ pc' = "returned"
    /\ last' = LastOp("Devices::open", 0, config, with_errno("IBGetDeviceListFail"))
    /\ UNCHANGED <<arg, text, ret, hw, config, refresh, list, cursor, devices, updates, snapcfg>>

\* RawDeviceList::available: the list is returned with num_devices == 0; the
\* function returns before the wrapper is built.
GetListEmpty ==
    /\ pc = "start"
    /\ Len(hw) = 0
    /\ calls' = Append(calls, Call("ibv_get_device_list", 0, 0, 0, TRUE))
    /\ result' = [ok |-> FALSE, err |-> ErrorFrom("IBDeviceNotFound")]
    /\ pc' = "returned"
    /\ last' = LastOp("Devices::open", 0, config, ErrorFrom("IBDeviceNotFound"))
    /\ UNCHANGED <<arg, text, ret, hw, config, refresh, list, cursor, devices, updates, snapcfg>>

\* RawDeviceList::available succeeds; Devices::open enters its loop.
GetListOk ==
    /\ pc = "start"
    /\ Len(hw) > 0
    /\ calls' = Append(calls, Call("ibv_get_device_list", 0, 0, 0, TRUE))
    /\ list' = "live"
    /\ cursor' = 1
    /\ pc' = "loop"
    /\ UNCHANGED <<arg, text, ret, hw, config, refresh, devices, result, updates, snapcfg, last>>

\* Devices::open without the name filter.
Accepted_AnyName(cfg, i) == TRUE

\* The name filter of Devices::open accepts raw device i.
Accepted(cfg, i) ==
    cfg.device_filter = {} \/ hw[i].name \in cfg.device_filter

\* One iteration of the loop of Devices::open: the name filter rejects the
\* raw device.
SkipDevice ==
    /\ pc = "loop"
    /\ cursor <= Len(hw)
    /\ ~Accepted(config, cursor)
    /\ cursor' = cursor + 1
    /\ UNCHANGED <<arg, text, ret, hw, config, refresh, pc, list, devices, result, calls, updates, snapcfg, last>>

\* Devices::open numbering a device by its position in the raw list
\* (enumerate index) instead of by devices.len().
OpenDevice_RawIndex ==
    /\ pc = "loop"
    /\ cursor <= Len(hw)
    /\ Accepted(config, cursor)
    /\ \E fail \in FailPoints(Len(hw[cursor].ports)) :
          LET r == DeviceOpen(cursor, hw[cursor], cursor - 1, config, fail)
          IN  /\ r.ok
              /\ devices' = Append(devices, r.this)
              /\ calls' = calls \o r.calls
    /\ snapcfg' = Append(snapcfg, config)
    /\ cursor' = cursor + 1
    /\ UNCHANGED <<arg, text, ret, hw, config, refresh, pc, list, result, updates, last>>

\* One iteration of the loop of Devices::open: Device::open succeeds and the
\* device is pushed.
OpenDevice ==
    /\ pc = "loop"
    /\ cursor <= Len(hw)
    /\ Accepted(config, cursor)
    /\ \E fail \in FailPoints(Len(hw[cursor].ports)) :
          LET r == DeviceOpen(cursor, hw[cursor], Len(devices), config, fail)
          IN  /\ r.ok
              /\ devices' = Append(devices, r.this)
              /\ calls' = calls \o r.calls
    /\ snapcfg' = Append(snapcfg, config)
    /\ cursor' = cursor + 1
    /\ UNCHANGED <<arg, text, ret, hw, config, refresh, pc, list, result, updates, last>>

\* One iteration of the loop of Devices::open: Device::open fails; the error
\* is returned, which drops the local `devices` and then the local `list`.
OpenDeviceFail ==
    /\ pc = "loop"
    /\ cursor <= Len(hw)
    /\ Accepted(config, cursor)
    /\ \E fail \in FailPoints(Len(hw[cursor].ports)) :
          LET r == DeviceOpen(cursor, hw[cursor], Len(devices), config, fail)
          IN  /\ ~r.ok
              /\ result' = [ok |-> FALSE, err |-> r.err]
              /\ calls' = calls \o r.calls \o DropDevices(devices) \o DropRawDeviceList
              /\ last' = LastOp("Devices::open", cursor, config, r.err)
    /\ devices' = <<>>
    /\ snapcfg' = <<>>
    /\ list' = "dropped"
    /\ pc' = "returned"
    /\ UNCHANGED <<arg, text, ret, hw, config, refresh, cursor, updates>>

\* After the loop of Devices::open: no device was accepted.
FinishEmpty ==
    /\ pc = "loop"
    /\ cursor > Len(hw)
    /\ devices = <<>>
    /\ result' = [ok |-> FALSE, err |-> ErrorFrom("IBDeviceNotFound")]
    /\ calls' = calls \o DropDevices(devices) \o DropRawDeviceList
    /\ list' = "dropped"
    /\ pc' = "returned"
    /\ last' = LastOp("Devices::open", 0, config, ErrorFrom("IBDeviceNotFound"))
    /\ UNCHANGED <<arg, text, ret, hw, config, refresh, cursor, devices, updates, snapcfg>>

\* Devices::open returning whatever it collected, without the is_empty check.
FinishOk_NoEmptyCheck ==
    /\ pc = "loop"
    /\ cursor > Len(hw)
    /\ result' = [ok |-> TRUE, err |-> NoError]
    /\ calls' = calls \o DropRawDeviceList
    /\ list' = "dropped"
    /\ pc' = "returned"
    /\ last' = LastOp("Devices::open", 0, config, NoError)
    /\ UNCHANGED <<arg, text, ret, hw, config, refresh, cursor, devices, updates, snapcfg>>

\* After the loop of Devices::open: the devices are returned; the local
\* `list` is dropped.
FinishOk ==
    /\ pc = "loop"
    /\ cursor > Len(hw)
    /\ devices # <<>>
    /\ result' = [ok |-> TRUE, err |-> NoError]
    /\ calls' = calls \o DropRawDeviceList
    /\ list' = "dropped"
    /\ pc' = "returned"
    /\ last' = LastOp("Devices::open", 0, config, NoError)
    /\ UNCHANGED <<arg, text, ret, hw, config, refresh, cursor, devices, updates, snapcfg>>

\* The points at which a verbs call of update_attr can fail.
UpdateFailPoints(maxPort) ==
    {f \in FailPoints(maxPort) : f.at \in {"none", "ibv_query_device", "ibv_query_port"}}

\* Device::update_attr on device i of the returned collection succeeds.
UpdateAttr ==
    /\ pc = "returned"
    /\ result.ok
    /\ updates < MaxUpdates
    /\ \E i \in 1..Len(devices) :
          LET hwdev == hw[devices[i].device]
          IN  \E fail \in UpdateFailPoints(Len(hwdev.ports)) :
                 LET r == update_attr(devices[i], hwdev, refresh, fail)
                 IN  /\ r.ok
                     /\ devices' = [devices EXCEPT ![i] = r.this]
                     /\ calls' = calls \o r.calls
                     /\ snapcfg' = [snapcfg EXCEPT ![i] = refresh]
                     /\ last' = LastOp("update_attr", i, refresh, NoError)
    /\ updates' = updates + 1
    /\ UNCHANGED <<arg, text, ret, hw, config, refresh, pc, list, cursor, result>>

\* Device::update_attr on device i of the returned collection fails.
UpdateAttrFail ==
    /\ pc = "returned"
    /\ result.ok
    /\ updates < MaxUpdates
    /\ \E i \in 1..Len(devices) :
          LET hwdev == hw[devices[i].device]
          IN  \E fail \in UpdateFailPoints(Len(hwdev.ports)) :
                 LET r == update_attr(devices[i], hwdev, refresh, fail)
                 IN  /\ ~r.ok
                     /\ devices' = [devices EXCEPT ![i] = r.this]
                     /\ calls' = calls \o r.calls
                     /\ last' = LastOp("update_attr", i, refresh, r.err)
    /\ updates' = updates + 1
    /\ UNCHANGED <<arg, text, ret, hw, config, refresh, pc, list, cursor, result, snapcfg>>

\* The caller drops the returned Devices.
DropReturned ==
    /\ pc = "returned"
    /\ result.ok
    /\ calls' = calls \o DropDevices(devices)
    /\ devices' = <<>>
    /\ snapcfg' = <<>>
    /\ pc' = "dropped"
    /\ last' = LastOp("drop", 0, config, NoError)
    /\ UNCHANGED <<arg, text, ret, hw, config, refresh, list, cursor, result, updates>>

Next ==
    \/ GetListFail
    \/ GetListEmpty
    \/ GetListOk
    \/ SkipDevice
    \/ OpenDevice
    \/ OpenDeviceFail
    \/ FinishEmpty
    \/ FinishOk
    \/ UpdateAttr
    \/ UpdateAttrFail
    \/ DropReturned

Spec == Init /\ [][Next]_vars

SpecPorts == InitPorts /\ [][Next]_vars

SpecGids == InitGids /\ [][Next]_vars

SpecFilters == InitFilters /\ [][Next]_vars

SpecScenario == InitScenario /\ [][Next]_vars
SpecNullGid == InitNullGid /\ [][Next]_vars

\* ------------------------------------------------------------- the call log
Count(op, h, ok) ==
    Cardinality({k \in DOMAIN calls :
                    calls[k].op = op /\ calls[k].h = h /\ calls[k].ok = ok})

\* A live Device owns context / protection domain h.
Held(h) == \E i \in DOMAIN devices : devices[i].context = h

Handles == 1..Len(hw)

\* The calls whose failure aborts Device::open / update_attr.
AbortingOps ==
    {"ibv_open_device", "ibv_alloc_pd", "ibv_query_device", "ibv_query_port"}

ReleaseOps == {"ibv_dealloc_pd", "ibv_close_device", "ibv_free_device_list"}

ErrorKindOf(op) ==
    CASE op = "ibv_open_device" -> "IBOpenDeviceFail"
      [] op = "ibv_alloc_pd" -> "IBAllocPDFail"
      [] op = "ibv_query_device" -> "IBQueryDeviceFail"
      [] op = "ibv_query_port" -> "IBQueryPortFail"
      [] OTHER -> "None"

FailedAborting == {k \in DOMAIN calls : calls[k].op \in AbortingOps /\ ~calls[k].ok}

\* ------------------------------------------------------------- C1
\* C1: every context obtained from a successful ibv_open_device is closed
\* exactly once and every protection domain obtained from a successful
\* ibv_alloc_pd is deallocated exactly once, on every exit path of
\* Device::open: nothing is released while a Device still owns it, nothing
\* is released twice, nothing stays unreleased once no Device owns it, and a
\* failed PD allocation closes the context without any deallocate.
C1_ReleasedExactlyOnce ==
    \A h \in Handles :
        /\ Count("ibv_open_device", h, TRUE) <= 1
        /\ Count("ibv_alloc_pd", h, TRUE) <= Count("ibv_open_device", h, TRUE)
        /\ Held(h) => Count("ibv_alloc_pd", h, TRUE) = 1
        /\ Count("ibv_close_device", h, TRUE)
             = (IF Held(h) THEN 0 ELSE Count("ibv_open_device", h, TRUE))
        /\ Count("ibv_dealloc_pd", h, TRUE)
             = (IF Held(h) THEN 0 ELSE Count("ibv_alloc_pd", h, TRUE))

\* A second device's PD allocation failed after a first device was opened:
\* the second context is closed without a deallocate, the first device is
\* released in full.
C1_Witness ==
    /\ pc = "returned"
    /\ result.err.kind = "IBAllocPDFail"
    /\ \E h, g \in Handles :
          /\ Count("ibv_alloc_pd", h, FALSE) = 1
          /\ Count("ibv_close_device", h, TRUE) = 1
          /\ Count("ibv_dealloc_pd", h, TRUE) = 0
          /\ Count("ibv_dealloc_pd", g, TRUE) = 1
          /\ Count("ibv_close_device", g, TRUE) = 1

\* ------------------------------------------------------------- C2
\* C2: once Devices::open has returned, every ibv_get_device_list call that
\* returned a list is matched by exactly one ibv_free_device_list call.
C2_ListFreedExactlyOnce ==
    pc \in {"returned", "dropped"} =>
        Count("ibv_free_device_list", 0, TRUE) = Count("ibv_get_device_list", 0, TRUE)

\* ------------------------------------------------------------- C3
\* C3: whenever a context is closed, every protection domain allocated on it
\* has been deallocated before: between a successful ibv_alloc_pd on a
\* context and the ibv_close_device of that context lies the ibv_dealloc_pd.
C3_PdReleasedBeforeContext ==
    \A c \in DOMAIN calls :
        calls[c].op = "ibv_close_device" =>
            \A a \in 1..(c - 1) :
                (calls[a].op = "ibv_alloc_pd" /\ calls[a].ok /\ calls[a].h = calls[c].h)
                    => \E d \in (a + 1)..(c - 1) :
                          calls[d].op = "ibv_dealloc_pd" /\ calls[d].h = calls[c].h

\* update_attr failed inside Device::open for a second device: that device
\* and the one built before it are both torn down.
C3_Witness ==
    /\ pc = "returned"
    /\ result.err.kind \in {"IBQueryDeviceFail", "IBQueryPortFail"}
    /\ \E h, g \in Handles :
          /\ h # g
          /\ Count("ibv_dealloc_pd", h, TRUE) = 1 /\ Count("ibv_close_device", h, TRUE) = 1
          /\ Count("ibv_dealloc_pd", g, TRUE) = 1 /\ Count("ibv_close_device", g, TRUE) = 1

\* ------------------------------------------------------------- C4
\* C4: Devices::open is fail-fast.  Inside the loop no aborting call has
\* failed yet; when it returned an error after a failed open / allocate /
\* query call, that call is the only failed one, the error carries its kind
\* and the OS error text, only release calls follow it, no device is
\* returned and everything opened before is released.
C4_FailFast ==
    /\ pc = "loop" => FailedAborting = {}
    /\ (pc = "returned" /\ ~result.ok /\ FailedAborting # {}) =>
          \E f \in FailedAborting :
              /\ FailedAborting = {f}
              /\ result.err = with_errno(ErrorKindOf(calls[f].op))
              /\ calls[f].h = last.dev
              /\ \A k \in (f + 1)..Len(calls) : calls[k].op \in ReleaseOps
              /\ devices = <<>>
              /\ \A h \in Handles :
                    /\ Count("ibv_close_device", h, TRUE) = Count("ibv_open_device", h, TRUE)
                    /\ Count("ibv_dealloc_pd", h, TRUE) = Count("ibv_alloc_pd", h, TRUE)
    /\ (pc = "returned" /\ result.ok) =>
          \A k \in FailedAborting : \E j \in 1..(k - 1) : calls[j].op = "ibv_free_device_list"

\* The first device was opened, a port query failed on the second one: the
\* first is released and the list is freed.
C4_Witness ==
    /\ pc = "returned"
    /\ result.err = with_errno("IBQueryPortFail")
    /\ last.dev = 2
    /\ Count("ibv_close_device", 1, TRUE) = 1
    /\ Count("ibv_free_device_list", 0, TRUE) = 1

\* ------------------------------------------------------------- C5
\* The calls issued by the step from the current state to the next one.
NewCalls == (Len(calls) + 1)..Len(calls')

\* C5 (as claimed): a failed port query is absorbed, so no operation ever
\* ends with the error of a port query.
C5_PortFailureAbsorbed == last.err.kind # "IBQueryPortFail"

\* C5 (amended): a failed port query is not absorbed.  The operation that
\* issued it ends with IBQueryPortFail and the OS error text, only release
\* calls follow the failed query (no further port, address or device is
\* queried), and when the operation is Devices::open it returns that error
\* without any device.
C5_PortFailureAborts ==
    [][\A k \in NewCalls :
          (calls'[k].op = "ibv_query_port" /\ ~calls'[k].ok) =>
              /\ last'.err = with_errno("IBQueryPortFail")
              /\ \A j \in (k + 1)..Len(calls') : calls'[j].op \in ReleaseOps
              /\ pc = "loop" =>
                    /\ pc' = "returned"
                    /\ result' = [ok |-> FALSE, err |-> with_errno("IBQueryPortFail")]
                    /\ devices' = <<>>
              /\ pc = "returned" => last'.op = "update_attr" /\ ~last'.ok]_vars

\* Devices::open failed on the first of two ports of a device.
C5_Witness ==
    /\ pc = "returned"
    /\ result.err = with_errno("IBQueryPortFail")
    /\ \E k \in DOMAIN calls :
          /\ calls[k].op = "ibv_query_port" /\ ~calls[k].ok /\ calls[k].port = 1
          /\ Len(hw[calls[k].h].ports) = 2

\* ------------------------------------------------------------- C6
\* The address-table entry can be queried and its type file can be read.
SlotOk(slot) == slot.ret = 0 /\ ~is_null(slot.gid) /\ slot.readable

\* The filters of the configuration keep the classified address.
PassesFilters(cfg, slot, port_attr) ==
    LET t == query_gid_type(slot, port_attr).gid_type
    IN  /\ cfg.gid_type_filter = {} \/ t \in cfg.gid_type_filter
        /\ ~(cfg.roce_v2_skip_link_local_addr /\ t = RoCEv2
               /\ is_unicast_link_local(slot.gid))

CountAt(op, h, port, idx) ==
    Cardinality({k \in DOMAIN calls :
                    calls[k].op = op /\ calls[k].h = h
                    /\ calls[k].port = port /\ calls[k].idx = idx})

\* C6: a per-address failure never aborts a device.  In every snapshot a
\* port that is not skipped as inactive is present; its address list holds
\* exactly the indices whose query and type lookup succeed and which pass
\* the filters (all of them when no filter is configured), so a failing
\* index removes only itself; every index of the table was queried, and
\* every index whose query succeeded was classified; no operation ends with
\* the error of an address query or of a type lookup.
C6_AddressFailureSkipsOnlyThatIndex ==
    /\ last.err.kind \notin {"IBQueryGidFail", "IBQueryGidTypeFail"}
    /\ result.err.kind \notin {"IBQueryGidFail", "IBQueryGidTypeFail"}
    /\ \A i \in DOMAIN devices :
          LET d == devices[i]
              hwdev == hw[d.device]
              cfg == snapcfg[i]
              shown == {q \in DOMAIN hwdev.ports :
                           hwdev.ports[q].state = IBV_PORT_ACTIVE
                           \/ ~cfg.skip_inactive_port}
          IN  /\ {d.info.ports[p].port_num : p \in DOMAIN d.info.ports} = shown
              /\ \A p \in DOMAIN d.info.ports :
                    LET port == d.info.ports[p]
                        slots == hwdev.ports[port.port_num].gids
                        kept == {port.gids[g].index : g \in DOMAIN port.gids}
                    IN  /\ kept = {k \in 0..(Len(slots) - 1) :
                                      /\ SlotOk(slots[k + 1])
                                      /\ PassesFilters(cfg, slots[k + 1], port.port_attr)}
                        /\ (cfg.gid_type_filter = {} /\ ~cfg.roce_v2_skip_link_local_addr)
                              => kept = {k \in 0..(Len(slots) - 1) : SlotOk(slots[k + 1])}
                        /\ \A k \in 0..(Len(slots) - 1) :
                              /\ CountAt("ibv_query_gid", d.context, port.port_num, k) >= 1
                              /\ query_gid(slots[k + 1]).ok =>
                                    CountAt("read_gid_type", d.context, port.port_num, k) >= 1

\* Devices::open returned a device whose port has a table of two addresses:
\* the type file of index 0 cannot be read, index 1 is the only address kept.
C6_Witness ==
    /\ pc = "returned"
    /\ result.ok
    /\ \E i \in DOMAIN devices :
          /\ Len(devices[i].info.ports) = 1
          /\ Len(hw[devices[i].device].ports[1].gids) = 2
          /\ query_gid(hw[devices[i].device].ports[1].gids[1]).ok
          /\ ~hw[devices[i].device].ports[1].gids[1].readable
          /\ Len(devices[i].info.ports[1].gids) = 1
          /\ devices[i].info.ports[1].gids[1].index = 1

\* ------------------------------------------------------------- C7
\* The name of raw device i is in the configured name set, or the set is
\* empty.
NameSelected(i) == config.device_filter = {} \/ hw[i].name \in config.device_filter

\* The selected raw devices among the first n, in list order.
RECURSIVE SelectedUpTo(_)
SelectedUpTo(n) ==
    IF n = 0 THEN <<>>
    ELSE IF NameSelected(n) THEN Append(SelectedUpTo(n - 1), n)
    ELSE SelectedUpTo(n - 1)

IsOpenCall(c) == c.op = "ibv_open_device"

\* The raw devices ibv_open_device was issued for, in call order.
OpenedRaw ==
    LET oc == SelectSeq(calls, IsOpenCall) IN [k \in DOMAIN oc |-> oc[k].h]

ListOps == {"ibv_get_device_list", "ibv_free_device_list"}

\* C7: ibv_open_device is issued for exactly the raw devices whose name is
\* selected, in list order; no call of any kind is issued for a raw device
\* that is not selected; on success the returned devices are exactly the
\* selected raw devices, in list order.
C7_OpensExactlySelected ==
    /\ \A k \in DOMAIN calls : calls[k].op \notin ListOps => NameSelected(calls[k].h)
    /\ pc = "loop" => OpenedRaw = SelectedUpTo(cursor - 1)
    /\ (pc = "returned" /\ ~result.ok /\ list = "dropped") =>
          OpenedRaw = SelectedUpTo(IF last.dev = 0 THEN Len(hw) ELSE last.dev)
    /\ (pc \in {"returned", "dropped"} /\ result.ok) => OpenedRaw = SelectedUpTo(Len(hw))
    /\ (pc = "returned" /\ result.ok) =>
          /\ [i \in DOMAIN devices |-> devices[i].device] = SelectedUpTo(Len(hw))
          /\ \A i \in DOMAIN devices : devices[i].info.name = hw[devices[i].device].name

\* A non-empty name set selected some but not all raw devices.
C7_Witness ==
    /\ pc = "returned"
    /\ result.ok
    /\ config.device_filter # {}
    /\ Len(devices) < Len(hw)

\* ------------------------------------------------------------- C8
\* C8: Devices::open never returns an empty inventory; when no raw device
\* is selected by a non-empty name set it fails with IBDeviceNotFound and an
\* empty message.
C8_NeverEmptyInventory ==
    /\ result.ok => pc \in {"returned", "dropped"}
    /\ (pc = "returned" /\ result.ok) => Len(devices) >= 1
    /\ (pc = "returned" /\ list = "dropped" /\ config.device_filter # {}
          /\ \A i \in DOMAIN hw : ~NameSelected(i)) =>
          result = [ok |-> FALSE, err |-> [kind |-> "IBDeviceNotFound", msg |-> ""]]

\* The list held devices, the name set matched none of them.
C8_Witness ==
    /\ pc = "returned"
    /\ list = "dropped"
    /\ Len(hw) = 2
    /\ config.device_filter # {}
    /\ result.err.kind = "IBDeviceNotFound"
    /\ OpenedRaw = <<>>

StepConfig == IF pc = "loop" THEN config ELSE last'.config

\* C10: a snapshot taken with skip_inactive_port set holds exactly the
\* ports whose queried state is ACTIVE, in port order, and a step of an
\* operation run with the flag set issues no address query and no type
\* lookup for a port that is not ACTIVE; a snapshot taken with the flag
\* unset holds every port from 1 to the physical port count.
C10_SkipInactivePorts ==
    /\ [](\A i \in DOMAIN devices :
             LET ports == devices[i].info.ports
                 hwdev == hw[devices[i].device]
             IN  IF snapcfg[i].skip_inactive_port
                 THEN /\ \A p \in DOMAIN ports :
                            ports[p].port_attr.state = IBV_PORT_ACTIVE
                      /\ {ports[p].port_num : p \in DOMAIN ports}
                            = {q \in DOMAIN hwdev.ports :
                                  hwdev.ports[q].state = IBV_PORT_ACTIVE}
                      /\ \A p, q \in DOMAIN ports :
                            p < q => ports[p].port_num < ports[q].port_num
                 ELSE /\ Len(ports) = devices[i].info.device_attr.phys_port_cnt
                      /\ Len(ports) = Len(hwdev.ports)
                      /\ \A p \in DOMAIN ports :
                            /\ ports[p].port_num = p
                            /\ ports[p].port_attr.state = hwdev.ports[p].state)
    /\ [][\A k \in NewCalls :
             (calls'[k].op \in {"ibv_query_gid", "read_gid_type"}
                /\ StepConfig.skip_inactive_port)
                => hw[calls'[k].h].ports[calls'[k].port].state = IBV_PORT_ACTIVE]_vars

\* update_attr ran with the flag set on a device whose first port is down
\* and whose second port is active: the snapshot holds port 2 only.
C10_Witness ==
    /\ last.op = "update_attr"
    /\ last.ok
    /\ last.config.skip_inactive_port
    /\ Len(hw[devices[last.dev].device].ports) = 2
    /\ hw[devices[last.dev].device].ports[1].state = IBV_PORT_DOWN
    /\ Len(devices[last.dev].info.ports) = 1
    /\ devices[last.dev].info.ports[1].port_num = 2

\* ------------------------------------------------------------- C11
\* The table indices of the addresses a port of a snapshot holds.
KeptIndices(port) == {port.gids[g].index : g \in DOMAIN port.gids}

\* The type the sysfs file of table entry k (from 0) stands for.
TypeAt(slots, port_attr, k) == query_gid_type(slots[k + 1], port_attr).gid_type

\* Same tag and same payload.
SameType(a, b) == a.tag = b.tag /\ a.payload = b.payload

\* C11: in every snapshot taken under a non-empty address-type filter F
\* every address has a type of F, tag and payload both (under F = {RoCEv2}
\* every address has the tag RoCEv2), and an address classified Other(s) is
\* absent unless F holds Other(s) with that very payload; under an empty
\* filter no address is missing because of its type: the port holds every
\* address that can be queried and classified, except RoCE v2 link-local
\* ones when the link-local flag is set.
C11_TypeFilter ==
    \A i \in DOMAIN devices :
        LET cfg == snapcfg[i]
            F == cfg.gid_type_filter
            hwdev == hw[devices[i].device]
        IN  \A p \in DOMAIN devices[i].info.ports :
               LET port == devices[i].info.ports[p]
                   slots == hwdev.ports[port.port_num].gids
                   all == 0..(Len(slots) - 1)
               IN  /\ \A g \in DOMAIN port.gids :
                         /\ port.gids[g].gid_type
                               = TypeAt(slots, port.port_attr, port.gids[g].index)
                         /\ F # {} => \E f \in F : SameType(f, port.gids[g].gid_type)
                         /\ F = {RoCEv2} => port.gids[g].gid_type.tag = "RoCEv2"
                   /\ \A k \in all :
                         LET t == TypeAt(slots, port.port_attr, k)
                         IN  (SlotOk(slots[k + 1]) /\ t.tag = "Other" /\ F # {}) =>
                                (k \in KeptIndices(port)
                                   <=> \E f \in F : f.tag = "Other" /\ f.payload = t.payload)
                   /\ F = {} =>
                         KeptIndices(port)
                            = {k \in all :
                                  /\ SlotOk(slots[k + 1])
                                  /\ ~(cfg.roce_v2_skip_link_local_addr
                                         /\ TypeAt(slots, port.port_attr, k).tag = "RoCEv2"
                                         /\ is_unicast_link_local(slots[k + 1].gid))}

\* Under the filter {Other("RoCE v3")} a port of unspecified link layer has
\* two addresses classified Other: the one with payload "IB/RoCE v1" is
\* dropped, the one with payload "RoCE v3" is the only address kept.
C11_Witness ==
    /\ pc = "returned"
    /\ result.ok
    /\ \E i \in DOMAIN devices :
          /\ snapcfg[i].gid_type_filter = {Other(<<"R","o","C","E"," ","v","3">>)}
          /\ hw[devices[i].device].ports[1].link_layer = "Unspecified"
          /\ hw[devices[i].device].ports[1].gids = <<SlotIB, SlotOther>>
          /\ KeptIndices(devices[i].info.ports[1]) = {1}

\* ------------------------------------------------------------- C12
\* The first ten bits of the address are 1111111010: fe80:: to febf::.
InLinkLocalPrefix(gid) == gid[1] \in 65152..65215

IsNotRoCEv2(g) == g.gid_type.tag # "RoCEv2"

\* The step is a successful update_attr.
UpdateAttrSucceeds == pc = "returned" /\ updates' = updates + 1 /\ last'.ok

\* C12: in every snapshot taken with roce_v2_skip_link_local_addr set no
\* address of type RoCEv2 lies in fe80::/10, and a RoCEv2 address outside
\* fe80::/10 is kept or dropped by the type filter alone; an address
\* classified IB, RoCEv1 or Other is kept or dropped by the type filter
\* alone whatever the flag and whatever its value; and an update_attr whose
\* configuration differs from the one of the previous snapshot in that flag
\* only leaves the addresses that are not RoCEv2 as they were.
C12_LinkLocalOnlyRoCEv2 ==
    /\ [](\A i \in DOMAIN devices :
             LET cfg == snapcfg[i]
                 F == cfg.gid_type_filter
                 hwdev == hw[devices[i].device]
             IN  \A p \in DOMAIN devices[i].info.ports :
                    LET port == devices[i].info.ports[p]
                        slots == hwdev.ports[port.port_num].gids
                    IN  /\ cfg.roce_v2_skip_link_local_addr =>
                              \A g \in DOMAIN port.gids :
                                 port.gids[g].gid_type.tag = "RoCEv2"
                                    => ~InLinkLocalPrefix(port.gids[g].gid)
                        /\ \A k \in 0..(Len(slots) - 1) :
                              LET t == TypeAt(slots, port.port_attr, k)
                                  typeKept == F = {} \/ \E f \in F : SameType(f, t)
                              IN  SlotOk(slots[k + 1]) =>
                                     IF t.tag = "RoCEv2"
                                     THEN k \in KeptIndices(port) <=>
                                             /\ typeKept
                                             /\ ~(cfg.roce_v2_skip_link_local_addr
                                                    /\ InLinkLocalPrefix(slots[k + 1].gid))
                                     ELSE k \in KeptIndices(port) <=> typeKept)
    /\ [][(/\ UpdateAttrSucceeds
           /\ [snapcfg[last'.dev] EXCEPT !.roce_v2_skip_link_local_addr = ~@]
                 = last'.config) =>
             LET before == devices[last'.dev].info.ports
                 after == devices'[last'.dev].info.ports
             IN  /\ Len(after) = Len(before)
                 /\ \A p \in DOMAIN before :
                       SelectSeq(after[p].gids, IsNotRoCEv2)
                          = SelectSeq(before[p].gids, IsNotRoCEv2)]_vars

\* update_attr ran with the flag set on an Ethernet port whose table holds
\* a RoCE v1 address in fe80:: and a RoCE v2 address in febf::: the RoCE v1
\* address stays, the RoCE v2 address is dropped.
C12_Witness ==
    /\ last.op = "update_attr"
    /\ last.ok
    /\ last.config.roce_v2_skip_link_local_addr
    /\ last.config.gid_type_filter = {}
    /\ hw[devices[last.dev].device].ports[1].link_layer = "Ethernet"
    /\ hw[devices[last.dev].device].ports[1].gids = <<SlotIBLinkLocal, SlotV2LinkLocalTop>>
    /\ KeptIndices(devices[last.dev].info.ports[1]) = {0}
    /\ devices[last.dev].info.ports[1].gids[1].gid_type = RoCEv1

\* ------------------------------------------------------------- C13
\* Type files: a body without surrounding whitespace, with whitespace put
\* before and after it.  The sentinels are a body followed by one newline.
TypeBodies ==
    {<<>>,
     <<"I","B","/","R","o","C","E"," ","v","1">>,
     <<"R","o","C","E"," ","v","2">>,
     <<"R","o","C","E"," ","v","3">>}
LeadingSpace == {<<>>, <<" ">>, <<"\n">>}
TrailingSpace == {<<>>, <<"\n">>, <<" ">>, <<"\n","\n">>, <<"\r","\n">>}

\* A type file and the link layer of the port it belongs to.
TypeFileArgs ==
    {[fn |-> "query_gid_type", readable |-> rd, pre |-> pre, body |-> body,
      post |-> post, link_layer |-> ll] :
        rd \in BOOLEAN, pre \in LeadingSpace, body \in TypeBodies,
        post \in TrailingSpace, ll \in LinkLayers}

InitGidType ==
    /\ DevicesIdle
    /\ arg \in {a \in TypeFileArgs : a.readable \/ (a.pre = <<>> /\ a.post = <<>>)}
    /\ text = <<>>
    /\ ret = NotCalled

\* RawContext::query_gid_type is called on the type file.
QueryGidType ==
    /\ ~ret.done
    /\ ret' = [done |-> TRUE,
               value |-> query_gid_type(
                            Slot(0, GidGlobal, arg.readable, arg.pre \o arg.body \o arg.post),
                            [state |-> IBV_PORT_ACTIVE, link_layer |-> arg.link_layer,
                             gid_tbl_len |-> 1])]
    /\ UNCHANGED <<arg, text, devvars>>

NextGidType == QueryGidType

SpecGidType == InitGidType /\ [][NextGidType]_vars

\* C13: query_gid_type of a readable type file returns IB when the content
\* is exactly "IB/RoCE v1\n" and the link layer is InfiniBand, RoCEv1 when
\* the content is exactly that and the link layer is Ethernet, Other of the
\* content without its surrounding whitespace for that content under any
\* other link layer; RoCEv2 when the content is exactly "RoCE v2\n", under
\* every link layer; and Other of the content without its surrounding
\* whitespace for every other content, a sentinel with more, less or other
\* whitespace around it included.
C13_Classification ==
    (ret.done /\ arg.readable) =>
        LET isV1 == /\ arg.pre = <<>>
                    /\ arg.body = <<"I","B","/","R","o","C","E"," ","v","1">>
                    /\ arg.post = <<"\n">>
            isV2 == /\ arg.pre = <<>>
                    /\ arg.body = <<"R","o","C","E"," ","v","2">>
                    /\ arg.post = <<"\n">>
        IN  /\ ret.value.ok
            /\ ret.value.gid_type =
                  (IF isV1 /\ arg.link_layer = "InfiniBand" THEN IB
                   ELSE IF isV1 /\ arg.link_layer = "Ethernet" THEN RoCEv1
                   ELSE IF isV2 THEN RoCEv2
                   ELSE [tag |-> "Other", payload |-> arg.body])

\* The file holds " RoCE v2\n": the result is Other("RoCE v2").
C13_Witness ==
    /\ ret.done
    /\ arg.readable
    /\ arg.pre = <<" ">>
    /\ arg.body = <<"R","o","C","E"," ","v","2">>
    /\ arg.post = <<"\n">>
    /\ ret.value.gid_type = [tag |-> "Other", payload |-> <<"R","o","C","E"," ","v","2">>]

\* ------------------------------------------------------------- C14
\* The device of the scenario: two ports, port 1 active with two addresses
\* of which one is classified IB and the other is a RoCE v2 link-local
\* address, port 2 not active.
ScenarioDevice(hwdev) ==
    /\ Len(hwdev.ports) = 2
    /\ hwdev.ports[1].state = IBV_PORT_ACTIVE
    /\ hwdev.ports[2].state # IBV_PORT_ACTIVE
    /\ Len(hwdev.ports[1].gids) = 2
    /\ \E a, b \in 1..2 :
          /\ a # b
          /\ SlotOk(hwdev.ports[1].gids[a]) /\ SlotOk(hwdev.ports[1].gids[b])
          /\ TypeAt(hwdev.ports[1].gids, PortAttr(hwdev.ports[1]), a - 1) = IB
          /\ TypeAt(hwdev.ports[1].gids, PortAttr(hwdev.ports[1]), b - 1) = RoCEv2
          /\ InLinkLocalPrefix(hwdev.ports[1].gids[b].gid)

\* {skip-inactive: true, skip-link-local: true}, no address-type filter.
ScenarioConfig(cfg) ==
    /\ cfg.skip_inactive_port
    /\ cfg.roce_v2_skip_link_local_addr
    /\ cfg.gid_type_filter = {}

\* C14: the snapshot of the scenario device taken under the scenario
\* configuration holds exactly one port, port 1, with exactly one address:
\* the one classified IB, under its table index; the RoCE v2 link-local
\* address and port 2 are absent.
C14_Scenario ==
    \A i \in DOMAIN devices :
        (ScenarioDevice(hw[devices[i].device]) /\ ScenarioConfig(snapcfg[i])) =>
            LET ports == devices[i].info.ports
                slots == hw[devices[i].device].ports[1].gids
            IN  /\ Len(ports) = 1
                /\ ports[1].port_num = 1
                /\ Len(ports[1].gids) = 1
                /\ ports[1].gids[1].gid_type = IB
                /\ slots[ports[1].gids[1].index + 1].content = GID_TYPE_IB_ROCE_V1
                /\ ports[1].gids[1].gid = slots[ports[1].gids[1].index + 1].gid

\* Devices::open returned the scenario device under the scenario
\* configuration; the link-local address is entry 0 of port 1 and port 2
\* has addresses of its own.
C14_Witness ==
    /\ pc = "returned"
    /\ result.ok
    /\ \E i \in DOMAIN devices :
          /\ ScenarioDevice(hw[devices[i].device])
          /\ ScenarioConfig(snapcfg[i])
          /\ hw[devices[i].device].ports[1].gids = <<SlotV2LinkLocal, SlotIB>>
          /\ Len(hw[devices[i].device].ports[2].gids) >= 1
          /\ Len(devices[i].info.ports) = 1
          /\ devices[i].info.ports[1].gids[1].index = 1

\* ------------------------------------------------------------- C15
QueryOps == {"ibv_query_device", "ibv_query_port", "ibv_query_gid", "read_gid_type"}

\* C15: a successful update_attr on a device changes nothing of it but
\* info.device_attr and info.ports, which hold what the queries report under
\* the configuration given: index, name, guid, ibdev_path, the raw device,
\* the context and the protection domain are the same handles and values as
\* before; the calls it issues are queries on the context of that device,
\* none opens, allocates, closes, deallocates or touches the device list;
\* every other device of the collection is as it was.
C15_UpdateAttrFrame ==
    [][UpdateAttrSucceeds =>
          LET i == last'.dev
              old == devices[i]
              new == devices'[i]
          IN  /\ last'.op = "update_attr"
              /\ DOMAIN devices' = DOMAIN devices
              /\ \A j \in DOMAIN devices : j # i => devices'[j] = devices[j]
              /\ new.protection_domain = old.protection_domain
              /\ new.context = old.context
              /\ new.device = old.device
              /\ new.info.index = old.info.index
              /\ new.info.name = old.info.name
              /\ new.info.guid = old.info.guid
              /\ new.info.ibdev_path = old.info.ibdev_path
              /\ new.info.device_attr.phys_port_cnt = Len(hw[old.device].ports)
              /\ \A p \in DOMAIN new.info.ports :
                    /\ last'.config.skip_inactive_port =>
                          new.info.ports[p].port_attr.state = IBV_PORT_ACTIVE
                    /\ last'.config.gid_type_filter # {} =>
                          \A g \in DOMAIN new.info.ports[p].gids :
                             new.info.ports[p].gids[g].gid_type
                                \in last'.config.gid_type_filter
              /\ SubSeq(calls', 1, Len(calls)) = calls
              /\ Len(calls') > Len(calls)
              /\ \A k \in NewCalls :
                    /\ calls'[k].op \in QueryOps
                    /\ calls'[k].h = old.context
              /\ list' = list
              /\ result' = result]_vars

\* update_attr ran on the second of two devices under a configuration that
\* filters its only address away: its port list changed, the first device
\* still holds its address.
C15_Witness ==
    /\ last.op = "update_attr"
    /\ last.ok
    /\ last.dev = 2
    /\ Len(devices) = 2
    /\ last.config # config
    /\ devices[2].info.ports # <<>>
    /\ devices[2].info.ports[1].gids = <<>>
    /\ devices[1].info.ports # <<>>
    /\ devices[1].info.ports[1].gids # <<>>

\* ------------------------------------------------------------- types/wrid.rs
\* u64::BITS
U64_BITS == 64

\* A u64 as its 64 bits: bit 0 is the least significant one.
U64Bits == 0..(U64_BITS - 1)

\* The u64 whose set bits are the positions of S.
U64Of(S) == [b \in U64Bits |-> IF b \in S THEN 1 ELSE 0]

\* A small literal n (n < 2^16) as u64.
U64Lit(n) == [b \in U64Bits |-> IF b < 16 THEN (n \div (2 ^ b)) % 2 ELSE 0]

\* x << n and x >> n on u64: the bits shifted out are lost.
U64Shl(x, n) == [b \in U64Bits |-> IF b >= n THEN x[b - n] ELSE 0]
U64Shr(x, n) == [b \in U64Bits |-> IF b + n < U64_BITS THEN x[b + n] ELSE 0]

U64And(x, y) == [b \in U64Bits |-> x[b] * y[b]]
U64Or(x, y) == [b \in U64Bits |-> IF x[b] + y[b] > 0 THEN 1 ELSE 0]
U64Not(x) == [b \in U64Bits |-> 1 - x[b]]

\* x - 1 on u64: the lowest set bit is cleared, the bits below it are set.
U64Dec(x) ==
    LET set == {b \in U64Bits : x[b] = 1}
        low == IF set = {} THEN U64_BITS
               ELSE CHOOSE b \in set : \A c \in set : b <= c
    IN  [b \in U64Bits |-> IF b < low THEN 1 ELSE IF b = low THEN 0 ELSE x[b]]

\* enum WCType and its discriminants.
WCTypes == {"Recv", "SendData", "SendImm"}
WCTypeAsU64(wc_type) ==
    CASE wc_type = "Recv" -> U64Lit(0)
      [] wc_type = "SendData" -> U64Lit(1)
      [] wc_type = "SendImm" -> U64Lit(2)

\* WRID::TYPE_BITS
TYPE_BITS == 62

\* WRID::TYPE_MASK
TYPE_MASK == U64Shl(U64Dec(U64Shl(U64Lit(1), U64_BITS - TYPE_BITS)), TYPE_BITS)

\* A constructor call either returns a WRID or panics.
Returned(wrid) == [panic |-> FALSE, wrid |-> wrid]
Panicked == [panic |-> TRUE, wrid |-> U64Lit(0)]

\* WRID::new without the assertion on the id.
WRID_new_NoAssert(wc_type, id) ==
    Returned(U64Or(U64Shl(WCTypeAsU64(wc_type), TYPE_BITS), id))

\* WRID::new
WRID_new(wc_type, id) ==
    IF U64And(id, TYPE_MASK) = U64Lit(0)
    THEN Returned(U64Or(U64Shl(WCTypeAsU64(wc_type), TYPE_BITS), id))
    ELSE Panicked

\* WRID::recv, WRID::send_data, WRID::send_imm
WRID_recv(id) == WRID_new("Recv", id)
WRID_send_data(id) == WRID_new("SendData", id)
WRID_send_imm(id) == WRID_new("SendImm", id)

\* WRID::get_type
get_type(wrid) ==
    LET t == U64Shr(U64And(wrid, TYPE_MASK), TYPE_BITS)
    IN  CASE t = U64Lit(0) -> "Recv"
          [] t = U64Lit(1) -> "SendData"
          [] t = U64Lit(2) -> "SendImm"
          [] OTHER -> "unreachable"

\* WRID::get_id returning the whole value.
get_id_NoMask(wrid) == wrid

\* WRID::get_id
get_id(wrid) == U64And(wrid, U64Not(TYPE_MASK))

\* The ids of SpecWrid: every combination of bit 0, bit 61 (the top bit of
\* the id field) and bits 62 and 63 (the tag field).
WridIds == {U64Of(S) : S \in SUBSET {0, 61, 62, 63}}

\* The constructor calls of SpecWrid.
WridCalls ==
    {[ctor |-> "new", wc_type |-> t, id |-> i] : t \in WCTypes, i \in WridIds}
    \cup {[ctor |-> "recv", wc_type |-> "Recv", id |-> i] : i \in WridIds}
    \cup {[ctor |-> "send_data", wc_type |-> "SendData", id |-> i] : i \in WridIds}
    \cup {[ctor |-> "send_imm", wc_type |-> "SendImm", id |-> i] : i \in WridIds}

\* SpecWrid: two constructor calls are made, one after the other.
InitWrid ==
    /\ DevicesIdle
    /\ arg \in {[fn |-> "WRID", calls |-> <<a, b>>] : a, b \in WridCalls}
    /\ text = <<>>
    /\ ret = [done |-> FALSE, results |-> <<>>]

\* What the constructor call c does.
Construct(c) ==
    CASE c.ctor = "new" -> WRID_new(c.wc_type, c.id)
      [] c.ctor = "recv" -> WRID_recv(c.id)
      [] c.ctor = "send_data" -> WRID_send_data(c.id)
      [] c.ctor = "send_imm" -> WRID_send_imm(c.id)

\* The next constructor call is made.
WridConstruct ==
    /\ ~ret.done
    /\ LET k == Len(ret.results) + 1
       IN  ret' = [done |-> k = Len(arg.calls),
                   results |-> Append(ret.results, Construct(arg.calls[k]))]
    /\ UNCHANGED <<arg, text, devvars>>

NextWrid == WridConstruct

SpecWrid == InitWrid /\ [][NextWrid]_vars

\* ------------------------------------------------------------- C16
\* The type a constructor call stands for, and the number of a type.
TagOf(c) ==
    CASE c.ctor = "recv" -> "Recv"
      [] c.ctor = "send_data" -> "SendData"
      [] c.ctor = "send_imm" -> "SendImm"
      [] OTHER -> c.wc_type

TagNumber(t) == CASE t = "Recv" -> 0 [] t = "SendData" -> 1 [] t = "SendImm" -> 2

\* The id is below 2^62: bits 62 and 63 are clear.
IdFits(id) == id[62] = 0 /\ id[63] = 0

\* C16: a constructor call with an id below 2^62 returns a WRID whose bits
\* 63 and 62 hold the number of the type (Recv 0, SendData 1, SendImm 2)
\* and whose bits 61 to 0 are those of the id; get_type and get_id give
\* back the type and the id; two calls that differ in type or id return
\* different 64-bit values.
C16_WridRoundTrip ==
    /\ \A k \in DOMAIN ret.results :
          LET c == arg.calls[k]
              r == ret.results[k]
          IN  IdFits(c.id) =>
                 /\ ~r.panic
                 /\ 2 * r.wrid[63] + r.wrid[62] = TagNumber(TagOf(c))
                 /\ \A b \in 0..61 : r.wrid[b] = c.id[b]
                 /\ get_type(r.wrid) = TagOf(c)
                 /\ get_id(r.wrid) = c.id
    /\ \A j, k \in DOMAIN ret.results :
          (/\ IdFits(arg.calls[j].id) /\ IdFits(arg.calls[k].id)
           /\ (TagOf(arg.calls[j]) # TagOf(arg.calls[k])
                 \/ arg.calls[j].id # arg.calls[k].id))
             => ret.results[j].wrid # ret.results[k].wrid

\* send_imm and new(SendData, ..) were called with the id 2^61 + 1: both
\* returned, with different values.
C16_Witness ==
    /\ ret.done
    /\ arg.calls[1].ctor = "send_imm"
    /\ arg.calls[2].ctor = "new" /\ arg.calls[2].wc_type = "SendData"
    /\ arg.calls[1].id = U64Of({0, 61})
    /\ arg.calls[2].id = U64Of({0, 61})
    /\ ~ret.results[1].panic /\ ~ret.results[2].panic
    /\ ret.results[1].wrid = U64Of({0, 61, 63})
    /\ ret.results[2].wrid = U64Of({0, 61, 62})

\* ------------------------------------------------------------- C17
\* C17: a constructor call (new, recv, send_data, send_imm) with an id of
\* 2^62 or more panics, for every type; hence in every WRID a constructor
\* returned bits 63 and 62 hold the number of the type asked for.
C17_WridIdTooLarge ==
    \A k \in DOMAIN ret.results :
        LET c == arg.calls[k]
            r == ret.results[k]
        IN  /\ (c.id[62] = 1 \/ c.id[63] = 1) => r.panic
            /\ ~r.panic => <<r.wrid[63], r.wrid[62]>>
                              = (CASE TagOf(c) = "Recv" -> <<0, 0>>
                                   [] TagOf(c) = "SendData" -> <<0, 1>>
                                   [] TagOf(c) = "SendImm" -> <<1, 0>>)

\* send_data was called with the id 2^62 and new(Recv, ..) with the id
\* 2^63 + 1: both panicked.
C17_Witness ==
    /\ ret.done
    /\ arg.calls[1].ctor = "send_data" /\ arg.calls[1].id = U64Of({62})
    /\ arg.calls[2].ctor = "new" /\ arg.calls[2].wc_type = "Recv"
    /\ arg.calls[2].id = U64Of({0, 63})
    /\ ret.results[1].panic /\ ret.results[2].panic

\* ------------------------------------------------------------- types/guid.rs
\* The byte order of the host the crate is built for.
Endians == {"little", "big"}

\* u64::swap_bytes
swap_bytes(x) == [b \in U64Bits |-> x[8 * (7 - (b \div 8)) + (b % 8)]]

\* u64::from_be and u64::to_be
u64_from_be(x, endian) == IF endian = "big" THEN x ELSE swap_bytes(x)
u64_to_be(x, endian) == IF endian = "big" THEN x ELSE swap_bytes(x)

\* Guid::as_u64
as_u64(guid, endian) == u64_from_be(guid, endian)

\* The value of the low bits b..0 of x, for b < 16.
RECURSIVE LowBits(_, _)
LowBits(x, b) == IF b < 0 THEN 0 ELSE x[b] * (2 ^ b) + LowBits(x, b - 1)

LowerHexDigits == <<"0","1","2","3","4","5","6","7","8","9","a","b","c","d","e","f">>
UpperHexDigits == <<"0","1","2","3","4","5","6","7","8","9","A","B","C","D","E","F">>

\* format!("{:x}", n)
RECURSIVE LowerHex(_)
LowerHex(n) ==
    IF n < 16 THEN <<LowerHexDigits[n + 1]>>
    ELSE Append(LowerHex(n \div 16), LowerHexDigits[(n % 16) + 1])

\* Padding with zeros on the left up to the width w.
RECURSIVE PadZero(_, _)
PadZero(s, w) == IF Len(s) >= w THEN s ELSE PadZero(<<"0">> \o s, w)

\* format!("{:04x}", n)
Format04x(n) == PadZero(LowerHex(n), 4)

\* impl Display for Guid
Guid_to_string(this, endian) ==
    LET guid == as_u64(this, endian)
        group(sh) == Format04x(LowBits(U64And(U64Shr(guid, sh), U64Lit(65535)), 15))
    IN  group(48) \o <<":">> \o group(32) \o <<":">> \o group(16) \o <<":">> \o group(0)

\* s.split(':')
RECURSIVE Split(_)
Split(s) ==
    IF \E i \in DOMAIN s : s[i] = ":"
    THEN LET i == CHOOSE i \in DOMAIN s : s[i] = ":" /\ \A j \in 1..(i - 1) : s[j] # ":"
         IN  <<SubSeq(s, 1, i - 1)>> \o Split(SubSeq(s, i + 1, Len(s)))
    ELSE <<s>>

\* char::to_digit(16); 16 stands for None.
to_digit(c) ==
    IF \E v \in 1..16 : LowerHexDigits[v] = c
    THEN (CHOOSE v \in 1..16 : LowerHexDigits[v] = c) - 1
    ELSE IF \E v \in 1..16 : UpperHexDigits[v] = c
    THEN (CHOOSE v \in 1..16 : UpperHexDigits[v] = c) - 1
    ELSE 16

\* The digits of u16::from_str_radix, accumulated with the overflow check.
RECURSIVE ParseDigits(_, _)
ParseDigits(digits, acc) ==
    IF digits = <<>> THEN [ok |-> TRUE, value |-> acc]
    ELSE LET d == to_digit(Head(digits))
         IN  IF d = 16 \/ acc * 16 + d > 65535
             THEN [ok |-> FALSE, value |-> 0]
             ELSE ParseDigits(Tail(digits), acc * 16 + d)

\* u16::from_str_radix(part, 16): an empty string and a lone sign are
\* errors; one leading "+" is taken as a sign; "-" is no digit.
u16_from_str_radix(part) ==
    IF part = <<>> \/ part = <<"+">> \/ part = <<"-">>
    THEN [ok |-> FALSE, value |-> 0]
    ELSE IF Head(part) = "+" THEN ParseDigits(Tail(part), 0)
    ELSE ParseDigits(part, 0)

\* The loop of Deserialize over the parts from part i (from 0) on.
RECURSIVE DeserializeParts(_, _, _)
DeserializeParts(parts, i, guid) ==
    IF i >= Len(parts) THEN [ok |-> TRUE, guid |-> guid]
    ELSE LET value == u16_from_str_radix(parts[i + 1])
         IN  IF ~value.ok THEN [ok |-> FALSE, guid |-> U64Lit(0)]
             ELSE DeserializeParts(parts, i + 1,
                      U64Or(guid, U64Shl(U64Lit(value.value), 48 - i * 16)))

\* Deserialize for Guid storing the parsed value without to_be().
Guid_deserialize_NoToBe(s, endian) ==
    LET parts == Split(s)
    IN  IF Len(parts) # 4
        THEN [ok |-> FALSE, err |-> "invalid GUID format", guid |-> U64Lit(0)]
        ELSE LET r == DeserializeParts(parts, 0, U64Lit(0))
             IN  IF ~r.ok
                 THEN [ok |-> FALSE, err |-> "invalid hexadecimal value", guid |-> U64Lit(0)]
                 ELSE [ok |-> TRUE, err |-> "", guid |-> r.guid]

\* impl Deserialize for Guid, on the string s.
Guid_deserialize(s, endian) ==
    LET parts == Split(s)
    IN  IF Len(parts) # 4
        THEN [ok |-> FALSE, err |-> "invalid GUID format", guid |-> U64Lit(0)]
        ELSE LET r == DeserializeParts(parts, 0, U64Lit(0))
             IN  IF ~r.ok
                 THEN [ok |-> FALSE, err |-> "invalid hexadecimal value", guid |-> U64Lit(0)]
                 ELSE [ok |-> TRUE, err |-> "", guid |-> u64_to_be(r.guid, endian)]

\* The u64 made of four 16-bit groups, most significant first.
U64OfGroups(h) == [b \in U64Bits |-> (h[4 - (b \div 16)] \div (2 ^ (b % 16))) % 2]

\* The stored values of SpecGuid: every group is 0000, 0039, 0b03, e8a4 or
\* ffff.
GuidValues == {U64OfGroups(h) : h \in [1..4 -> {0, 57, 2819, 59556, 65535}]}

\* The groups the strings of SpecGuid are made of, and the strings: four
\* groups of any kind, and one, three and five well-formed groups.
TextGroups ==
    {<<>>, <<"0">>, <<"f","f","f","f">>, <<"A","b","C","d">>, <<"0","g","0","3">>,
     <<"+","1">>, <<"-","1">>, <<"+">>, <<"0","0","0","0","1">>, <<"1","0","0","0","0">>}

RECURSIVE Join(_)
Join(groups) ==
    IF Len(groups) = 0 THEN <<>>
    ELSE IF Len(groups) = 1 THEN groups[1]
    ELSE groups[1] \o <<":">> \o Join(Tail(groups))

GuidTexts ==
    {Join(gs) : gs \in [1..4 -> TextGroups]}
    \cup {Join(gs) : gs \in UNION {[1..n -> {<<"0">>, <<"f","f","f","f">>}] : n \in {1, 3, 5}}}

\* SpecGuid: a stored value is displayed and the text is deserialized, or a
\* given string is deserialized.
InitGuid ==
    /\ DevicesIdle
    /\ \/ /\ arg \in {[fn |-> "Guid", from |-> "value", endian |-> e, guid |-> g] :
                        e \in Endians, g \in GuidValues}
          /\ text = <<>>
       \/ /\ arg \in {[fn |-> "Guid", from |-> "text", endian |-> e, guid |-> U64Lit(0)] :
                        e \in Endians}
          /\ text \in GuidTexts
    /\ ret = [done |-> FALSE, value |-> [ok |-> FALSE, err |-> "", guid |-> U64Lit(0)]]

\* Display / Serialize of the stored value.
GuidDisplay ==
    /\ arg.from = "value"
    /\ text = <<>>
    /\ text' = Guid_to_string(arg.guid, arg.endian)
    /\ UNCHANGED <<arg, ret, devvars>>

\* Deserialize of the text.
GuidDeserialize ==
    /\ ~ret.done
    /\ arg.from = "text" \/ text # <<>>
    /\ ret' = [done |-> TRUE, value |-> Guid_deserialize(text, arg.endian)]
    /\ UNCHANGED <<arg, text, devvars>>

NextGuid == GuidDisplay \/ GuidDeserialize

SpecGuid == InitGuid /\ [][NextGuid]_vars

\* ------------------------------------------------------------- C18
\* The value of the four bits p+3..p of x.
Nibble(x, p) == x[p] + 2 * x[p + 1] + 4 * x[p + 2] + 8 * x[p + 3]

\* The host-order value of a stored Guid: the stored value on a big-endian
\* host, the stored value with its eight bytes reversed on a little-endian
\* one.
HostOrder(guid, endian) ==
    IF endian = "big" THEN guid
    ELSE [b \in U64Bits |-> guid[(56 - 8 * (b \div 8)) + (b % 8)]]

\* C18: the text of a stored Guid has nineteen characters: four groups of
\* four lower-case hex digits with a colon between them, the sixteen digits
\* being the nibbles of the host-order value from the most significant one
\* down; deserializing that text succeeds and gives the stored 64-bit
\* value.
C18_GuidRoundTrip ==
    /\ (arg.fn = "Guid" /\ arg.from = "value" /\ text # <<>>) =>
          /\ Len(text) = 19
          /\ text[5] = ":" /\ text[10] = ":" /\ text[15] = ":"
          /\ \A n \in 0..15 :
                text[n + (n \div 4) + 1]
                   = LowerHexDigits[Nibble(HostOrder(arg.guid, arg.endian), 60 - 4 * n) + 1]
    /\ (arg.fn = "Guid" /\ arg.from = "value" /\ ret.done) =>
          /\ ret.value.ok
          /\ ret.value.guid = arg.guid

\* On a little-endian host the stored value 0x0039_0b03_e8a4_ffff was
\* displayed as ffff:a4e8:030b:3900 and read back.
C18_Witness ==
    /\ arg.fn = "Guid"
    /\ arg.from = "value"
    /\ arg.endian = "little"
    /\ ret.done
    /\ text = <<"f","f","f","f",":","a","4","e","8",":","0","3","0","b",":","3","9","0","0">>
    /\ arg.guid = U64OfGroups(<<57, 2819, 59556, 65535>>)
    /\ ret.value.guid = arg.guid

\* ------------------------------------------------------------- C19
HexChars ==
    {LowerHexDigits[v] : v \in 1..16} \cup {UpperHexDigits[v] : v \in 1..16}

\* Exactly four groups of one to four hex digits, with a colon between them.
WellShaped(t) ==
    \E a, b, c, d \in 1..4 :
        /\ Len(t) = a + b + c + d + 3
        /\ t[a + 1] = ":" /\ t[a + b + 2] = ":" /\ t[a + b + c + 3] = ":"
        /\ \A i \in DOMAIN t \ {a + 1, a + b + 2, a + b + c + 3} : t[i] \in HexChars

\* C19: deserializing a string succeeds exactly when the string is four
\* colon-separated groups of one to four hex digits, in either case: any
\* other number of groups, an empty group, a group of more than four
\* characters and a group with a character that is no hex digit, a sign
\* included, are errors.
C19_RejectsMalformed ==
    (arg.fn = "Guid" /\ arg.from = "text" /\ ret.done) =>
        (ret.value.ok <=> WellShaped(text))

\* ------------------------------------------------------------- types/fw_ver.rs
\* The length of the buffer of FwVer.
FW_VER_LEN == 64

\* "<invalid>" as its bytes; a str is modelled as its UTF-8 bytes.
InvalidText == <<60, 105, 110, 118, 97, 108, 105, 100, 62>>

\* A continuation byte of UTF-8.
IsCont(b) == b \in 128..191

\* std::str::from_utf8 succeeds on the bytes s.
RECURSIVE IsUtf8(_)
IsUtf8(s) ==
    IF s = <<>> THEN TRUE
    ELSE LET first == s[1]
             rest(n) == SubSeq(s, n + 1, Len(s))
         IN  IF first < 128 THEN IsUtf8(rest(1))
             ELSE IF first \in 194..223
             THEN Len(s) >= 2 /\ IsCont(s[2]) /\ IsUtf8(rest(2))
             ELSE IF first \in 224..239
             THEN /\ Len(s) >= 3
                  /\ CASE first = 224 -> s[2] \in 160..191
                       [] first = 237 -> s[2] \in 128..159
                       [] OTHER -> IsCont(s[2])
                  /\ IsCont(s[3])
                  /\ IsUtf8(rest(3))
             ELSE IF first \in 240..244
             THEN /\ Len(s) >= 4
                  /\ CASE first = 240 -> s[2] \in 144..191
                       [] first = 244 -> s[2] \in 128..143
                       [] OTHER -> IsCont(s[2])
                  /\ IsCont(s[3]) /\ IsCont(s[4])
                  /\ IsUtf8(rest(4))
             ELSE FALSE

\* Display for FwVer taking 63 bytes when the buffer holds no zero byte.
FwVer_to_string_Default63(buf) ==
    LET zeros == {i \in DOMAIN buf : buf[i] = 0}
        len == IF zeros = {} THEN 63
               ELSE (CHOOSE i \in zeros : \A j \in zeros : i <= j) - 1
        bytes == SubSeq(buf, 1, len)
    IN  IF IsUtf8(bytes) THEN bytes ELSE InvalidText

\* impl Display for FwVer
FwVer_to_string(buf) ==
    LET zeros == {i \in DOMAIN buf : buf[i] = 0}
        len == IF zeros = {} THEN 64
               ELSE (CHOOSE i \in zeros : \A j \in zeros : i <= j) - 1
        bytes == SubSeq(buf, 1, len)
    IN  IF IsUtf8(bytes) THEN bytes ELSE InvalidText

\* The bytes of the buffers of SpecFwVer: zero, "2", ".", the two bytes of
\* "e with acute" and a byte no UTF-8 text holds.
FwBytes == {0, 50, 46, 195, 169, 255}

\* The buffers of SpecFwVer: up to MaxFwPrefix bytes chosen freely, followed
\* by zeros, by "a" up to the end, or by one zero and then the byte 255 up
\* to the end.
FwFills == {"zeros", "letters", "garbage"}
FwBuffer(prefix, fill) ==
    [i \in 1..FW_VER_LEN |->
        IF i <= Len(prefix) THEN prefix[i]
        ELSE CASE fill = "zeros" -> 0
               [] fill = "letters" -> 97
               [] fill = "garbage" -> IF i = Len(prefix) + 1 THEN 0 ELSE 255]

InitFwVer ==
    /\ DevicesIdle
    /\ arg \in {[fn |-> "FwVer", buf |-> FwBuffer(prefix, fill)] :
                   prefix \in SeqsUpTo(FwBytes, MaxFwPrefix), fill \in FwFills}
    /\ text = <<>>
    /\ ret = [done |-> FALSE, value |-> <<>>]

\* Display / Serialize of the buffer.
FwVerDisplay ==
    /\ ~ret.done
    /\ ret' = [done |-> TRUE, value |-> FwVer_to_string(arg.buf)]
    /\ UNCHANGED <<arg, text, devvars>>

NextFwVer == FwVerDisplay

SpecFwVer == InitFwVer /\ [][NextFwVer]_vars

\* ------------------------------------------------------------- C20
\* C20: the text of a 64-byte buffer is the bytes before its first zero
\* byte, all 64 bytes when it holds no zero byte, or "<invalid>"; it is
\* those bytes whenever all of them are ASCII (the empty text for an
\* all-zero buffer) and when they are the two-byte encoding of one
\* character; it is "<invalid>" when they hold a byte that no UTF-8 text
\* holds, start with a continuation byte or end inside a character, and
\* only when one of them is not ASCII.
C20_FwVerText ==
    (arg.fn = "FwVer" /\ ret.done) =>
        LET buf == arg.buf
            zeros == {i \in 1..64 : buf[i] = 0}
            n == IF zeros = {} THEN 64
                 ELSE CHOOSE k \in 0..63 : (k + 1) \in zeros /\ \A i \in 1..k : buf[i] # 0
            selected == [i \in 1..n |-> buf[i]]
        IN  /\ Len(buf) = 64
            /\ ret.value \in {selected, InvalidText}
            /\ (\A i \in 1..n : buf[i] < 128) => ret.value = selected
            /\ zeros = 1..64 => ret.value = <<>>
            /\ selected = <<195, 169>> => ret.value = selected
            /\ (\E i \in 1..n : buf[i] = 255) => ret.value = InvalidText
            /\ (n >= 1 /\ buf[1] \in 128..191) => ret.value = InvalidText
            /\ (n >= 1 /\ buf[n] = 195) => ret.value = InvalidText
            /\ ret.value # selected => \E i \in 1..n : buf[i] >= 128

\* The buffer holds "2.2", a zero byte and then bytes of value 255: the
\* text is "2.2".
C20_Witness ==
    /\ arg.fn = "FwVer"
    /\ ret.done
    /\ arg.buf[1] = 50 /\ arg.buf[2] = 46 /\ arg.buf[3] = 50
    /\ arg.buf[4] = 0 /\ arg.buf[5] = 255
    /\ ret.value = <<50, 46, 50>>

\* impl Deserialize for FwVer: the bytes of the string, at most 63 of them,
\* copied into a zeroed buffer of 64 bytes.
FwVer_deserialize(s) ==
    LET len == IF Len(s) < 63 THEN Len(s) ELSE 63
    IN  [i \in 1..FW_VER_LEN |-> IF i <= len THEN s[i] ELSE 0]

\* The strings of SpecFwVerText, as their UTF-8 bytes: a run of "a" that is
\* empty, one byte long or ends within four bytes of the buffer's length,
\* followed by up to MaxFwTail characters out of "2", "e with acute" (two
\* bytes) and U+0000.
FwChars == {<<50>>, <<195, 169>>, <<0>>}
RECURSIVE Concat(_)
Concat(ss) == IF ss = <<>> THEN <<>> ELSE ss[1] \o Concat(Tail(ss))
FwTexts ==
    {[i \in 1..n |-> 97] \o Concat(tail) :
        n \in {0, 1} \cup ((FW_VER_LEN - 4)..FW_VER_LEN),
        tail \in SeqsUpTo(FwChars, MaxFwTail)}

InitFwVerText ==
    /\ DevicesIdle
    /\ arg = [fn |-> "FwVer::deserialize", parsed |-> FALSE,
              buf |-> [i \in 1..FW_VER_LEN |-> 0]]
    /\ text \in FwTexts
    /\ ret = [done |-> FALSE, value |-> <<>>]

\* Deserialize of the string text.
FwVerDeserialize ==
    /\ ~arg.parsed
    /\ arg' = [arg EXCEPT !.parsed = TRUE, !.buf = FwVer_deserialize(text)]
    /\ UNCHANGED <<text, ret, devvars>>

\* Display of the deserialized value.
FwVerDisplayParsed == arg.parsed /\ FwVerDisplay

NextFwVerText == FwVerDeserialize \/ FwVerDisplayParsed

SpecFwVerText == InitFwVerText /\ [][NextFwVerText]_vars

\* ------------------------------------------------------------- C21
\* C21: once a string is deserialized the last byte of the buffer is zero;
\* a string of more than 63 bytes (here: none of the first 63 a zero byte)
\* leaves its first 63 bytes and a zero byte in the buffer, and the text of
\* the value has length 63 and is those 63 bytes; a string of at most 63
\* bytes, none of them zero, is the text of the value.
C21_Truncates ==
    (arg.fn = "FwVer::deserialize" /\ arg.parsed) =>
        /\ arg.buf[64] = 0
        /\ (Len(text) > 63 /\ \A i \in 1..63 : text[i] # 0) =>
               /\ \A i \in 1..63 : arg.buf[i] = text[i]
               /\ ret.done =>
                      /\ Len(ret.value) = 63
                      /\ ret.value = [i \in 1..63 |-> text[i]]
        /\ (Len(text) <= 63 /\ \A i \in 1..Len(text) : text[i] # 0) =>
               (ret.done => ret.value = text)

\* ---------------------------------------------------------- types/link_layer.rs
\* The values of a u8.
U8 == 0..255

\* LinkLayer::from_u8 sending every value but 0 and 1 to Ethernet.
LinkLayer_from_u8_ElseEthernet(value) ==
    CASE value = 0 -> "Unspecified"
      [] value = 1 -> "InfiniBand"
      [] OTHER -> "Ethernet"

\* LinkLayer::from_u8
LinkLayer_from_u8(value) ==
    CASE value = 0 -> "Unspecified"
      [] value = 1 -> "InfiniBand"
      [] value = 4 -> "Ethernet"
      [] OTHER -> "Unspecified"

\* impl From<LinkLayer> for u8: the discriminant of the variant.
LinkLayer_as_u8(layer) ==
    CASE layer = "Unspecified" -> 0
      [] layer = "InfiniBand" -> 1
      [] layer = "Ethernet" -> 4

InitLinkLayer ==
    /\ DevicesIdle
    /\ arg \in {[fn |-> "LinkLayer::from_u8", value |-> v] : v \in U8}
    /\ text = <<>>
    /\ ret = [done |-> FALSE, layer |-> "Unspecified", back |-> 0]

\* LinkLayer::from_u8(value), and the result converted to u8.
LinkLayerFromU8 ==
    /\ ~ret.done
    /\ LET layer == LinkLayer_from_u8(arg.value)
       IN  ret' = [done |-> TRUE, layer |-> layer, back |-> LinkLayer_as_u8(layer)]
    /\ UNCHANGED <<arg, text, devvars>>

NextLinkLayer == LinkLayerFromU8

SpecLinkLayer == InitLinkLayer /\ [][NextLinkLayer]_vars

\* ------------------------------------------------------------- C22
\* C22: from_u8 gives a variant for each of the 256 values: InfiniBand for
\* 1, Ethernet for 4, Unspecified for 0 and for every other value; a
\* variant converted to u8 and back is the same variant; the result
\* converted to u8 is the value given exactly for 0, 1 and 4.
C22_LinkLayerTotal ==
    (arg.fn = "LinkLayer::from_u8" /\ ret.done) =>
        /\ ret.layer \in {"Unspecified", "InfiniBand", "Ethernet"}
        /\ arg.value = 1 => ret.layer = "InfiniBand"
        /\ arg.value = 4 => ret.layer = "Ethernet"
        /\ arg.value \notin {1, 4} => ret.layer = "Unspecified"
        /\ ret.back = arg.value <=> arg.value \in {0, 1, 4}
        /\ \A layer \in {"Unspecified", "InfiniBand", "Ethernet"} :
               LinkLayer_from_u8(LinkLayer_as_u8(layer)) = layer

\* The value 200 gives Unspecified, which converts to 0.
C22_Witness ==
    /\ arg.fn = "LinkLayer::from_u8"
    /\ ret.done
    /\ arg.value = 200
    /\ ret.layer = "Unspecified"
    /\ ret.back = 0

\* ------------------------------------------------------------------ error.rs
\* The unit variants of ErrorKind, by name.
ErrorKindNames ==
    {"AllocMemoryFailed", "IBGetDeviceListFail", "IBDeviceNotFound",
     "IBOpenDeviceFail", "IBQueryDeviceFail", "IBQueryGidFail",
     "IBQueryGidTypeFail", "IBQueryPortFail", "IBAllocPDFail",
     "IBCreateCompChannelFail", "IBSetCompChannelNonBlockFail",
     "IBGetCompQueueEventFail", "IBCreateCompQueueFail",
     "IBReqNotifyCompQueueFail", "IBPollCompQueueFail",
     "IBRegMemoryRegionFail", "IBCreateQueuePairFail",
     "IBModifyQueuePairFail", "IBPostRecvFailed", "IBPostSendFailed",
     "IBSetNonBlockFailed", "InsufficientBuffer"}

\* The values of ErrorKind: a unit variant, or Unknown with its string.
UnitKind(name) == [variant |-> name, payload |-> ""]
UnknownKind(s) == [variant |-> "Unknown", payload |-> s]

\* Values of the serde data model: a string, or the unit value (null).
Str(s) == [type |-> "str", v |-> s]
Null == [type |-> "unit", v |-> ""]

\* A result of deserialization.
De_Ok(value) == [ok |-> TRUE, value |-> value]
De_Err(value) == [ok |-> FALSE, value |-> value]

\* derive(Serialize) for ErrorKind writing every variant as its name.
ErrorKind_serialize_ByName(kind) == Str(kind.variant)

\* derive(Serialize) for ErrorKind: a unit variant is written as its name,
\* the untagged variant Unknown as the string it holds.
ErrorKind_serialize(kind) ==
    IF kind.variant = "Unknown" THEN Str(kind.payload) ELSE Str(kind.variant)

\* derive(Deserialize) for ErrorKind that accepts the named variants only.
ErrorKind_deserialize_NamedOnly(content) ==
    IF content.type = "str" /\ content.v \in ErrorKindNames
    THEN De_Ok(UnitKind(content.v))
    ELSE De_Err(UnknownKind(""))

\* derive(Deserialize) for ErrorKind: the tagged variants are tried first,
\* by name; when none matches, the untagged variant Unknown takes any
\* string.
ErrorKind_deserialize(content) ==
    IF content.type = "str" /\ content.v \in ErrorKindNames
    THEN De_Ok(UnitKind(content.v))
    ELSE IF content.type = "str"
    THEN De_Ok(UnknownKind(content.v))
    ELSE De_Err(UnknownKind(""))

\* struct Error and its derived Serialize / Deserialize: a map with the
\* keys kind and msg.
ErrorValue(kind, msg) == [kind |-> kind, msg |-> msg]
Error_serialize(error) ==
    [kind |-> ErrorKind_serialize(error.kind), msg |-> Str(error.msg)]
Error_deserialize(map) ==
    LET kind == ErrorKind_deserialize(map.kind)
    IN  IF kind.ok /\ map.msg.type = "str"
        THEN De_Ok(ErrorValue(kind.value, map.msg.v))
        ELSE De_Err(ErrorValue(UnknownKind(""), ""))

\* The strings of SpecError: the names of the variants, strings that name
\* no variant (one differs from a name by case only; one is the name of the
\* variant Unknown itself), and two messages.
KindStrings == ErrorKindNames \cup {"NewKindError", "", "Unknown", "ibopendevicefail"}
Messages == {"", "No such device"}
ErrorKinds == {UnitKind(n) : n \in ErrorKindNames} \cup {UnknownKind(s) : s \in KindStrings}
Errors == {ErrorValue(k, msg) : k \in ErrorKinds, msg \in Messages}
ErrorMaps ==
    {[kind |-> k, msg |-> Str(msg)] :
        k \in {Str(s) : s \in KindStrings} \cup {Null}, msg \in Messages}

\* Either an Error to be serialized and read back, or a map received from
\* a peer to be deserialized.
InitError ==
    /\ DevicesIdle
    /\ \/ /\ arg \in {[fn |-> "Error::serialize", error |-> e] : e \in Errors}
          /\ text = <<>>
       \/ /\ arg = [fn |-> "Error::deserialize", error |-> ErrorValue(UnknownKind(""), "")]
          /\ text \in {<<map>> : map \in ErrorMaps}
    /\ ret = [done |-> FALSE, ok |-> FALSE, value |-> ErrorValue(UnknownKind(""), "")]

ErrorSerialize ==
    /\ arg.fn = "Error::serialize"
    /\ text = <<>>
    /\ text' = <<Error_serialize(arg.error)>>
    /\ UNCHANGED <<arg, ret, devvars>>

ErrorDeserialize ==
    /\ text # <<>>
    /\ ~ret.done
    /\ LET r == Error_deserialize(text[1])
       IN  ret' = [done |-> TRUE, ok |-> r.ok, value |-> r.value]
    /\ UNCHANGED <<arg, text, devvars>>

NextError == ErrorSerialize \/ ErrorDeserialize

SpecError == InitError /\ [][NextError]_vars

\* ------------------------------------------------------------- C23
\* C23: deserializing an Error whose kind is a string never fails: a string
\* that is the name of a named variant gives that variant, every other
\* string s gives Unknown(s) with s unchanged, and the message is the one
\* received.
C23_KindNeverFails ==
    (arg.fn = "Error::deserialize" /\ ret.done /\ text[1].kind.type = "str") =>
        LET s == text[1].kind.v
        IN  /\ ret.ok
            /\ ret.value.msg = text[1].msg.v
            /\ s \in ErrorKindNames =>
                   ret.value.kind = [variant |-> s, payload |-> ""]
            /\ s \notin ErrorKindNames =>
                   ret.value.kind = [variant |-> "Unknown", payload |-> s]

\* "NewKindError" names no variant: the kind is Unknown("NewKindError").
C23_Witness ==
    /\ arg.fn = "Error::deserialize"
    /\ ret.done
    /\ text[1] = [kind |-> Str("NewKindError"), msg |-> Str("No such device")]
    /\ ret.ok
    /\ ret.value = [kind |-> [variant |-> "Unknown", payload |-> "NewKindError"],
                    msg |-> "No such device"]

\* ------------------------------------------------------------- C30
\* C30: every Error, also one of kind Unknown(s) for any string s,
\* serialized and then deserialized is an equal Error.
C30_ErrorRoundTrip ==
    (arg.fn = "Error::serialize" /\ ret.done) =>
        /\ ret.ok
        /\ ret.value = arg.error

\* C30 as the code has it: the round trip gives an equal Error when the
\* kind is a named variant or Unknown(s) for a string s that names no
\* variant; Unknown(s) for the name s of a variant comes back as that
\* variant, with the message unchanged.
C30_RoundTripUnlessNamed ==
    (arg.fn = "Error::serialize" /\ ret.done) =>
        LET kind == arg.error.kind
            named == {"AllocMemoryFailed", "IBGetDeviceListFail", "IBDeviceNotFound",
                      "IBOpenDeviceFail", "IBQueryDeviceFail", "IBQueryGidFail",
                      "IBQueryGidTypeFail", "IBQueryPortFail", "IBAllocPDFail",
                      "IBCreateCompChannelFail", "IBSetCompChannelNonBlockFail",
                      "IBGetCompQueueEventFail", "IBCreateCompQueueFail",
                      "IBReqNotifyCompQueueFail", "IBPollCompQueueFail",
                      "IBRegMemoryRegionFail", "IBCreateQueuePairFail",
                      "IBModifyQueuePairFail", "IBPostRecvFailed", "IBPostSendFailed",
                      "IBSetNonBlockFailed", "InsufficientBuffer"}
        IN  /\ ret.ok
            /\ ret.value.msg = arg.error.msg
            /\ text[1].msg = [type |-> "str", v |-> arg.error.msg]
            /\ (kind.variant # "Unknown" \/ kind.payload \notin named) =>
                   ret.value = arg.error
            /\ (kind.variant = "Unknown" /\ kind.payload \in named) =>
                   ret.value.kind = [variant |-> kind.payload, payload |-> ""]

\* Unknown("NewKindError") is written as "NewKindError" and read back as
\* Unknown("NewKindError").
C30_Witness ==
    /\ arg.fn = "Error::serialize"
    /\ arg.error = [kind |-> [variant |-> "Unknown", payload |-> "NewKindError"],
                    msg |-> "No such device"]
    /\ ret.done
    /\ text[1].kind = [type |-> "str", v |-> "NewKindError"]
    /\ ret.value = arg.error

\* ------------------------------------------------------------- C24
\* C24: while a Device exists, the device list its raw device pointer was
\* taken from has not been released: no ibv_free_device_list call has been
\* issued and the list wrapper has not been dropped.
C24_DevicePtrValid ==
    \A i \in DOMAIN devices :
        /\ list # "dropped"
        /\ \A k \in DOMAIN calls : calls[k].op # "ibv_free_device_list"

\* ------------------------------------------------------------- C25
\* The ibv_query_gid calls logged for index idx of a port.
GidQueries(h, port, idx) ==
    {k \in DOMAIN calls :
        calls[k].op = "ibv_query_gid" /\ calls[k].h = h
        /\ calls[k].port = port /\ calls[k].idx = idx}

\* C25: query_gid succeeds exactly when ibv_query_gid returns 0 and the
\* address returned is not the all-zero address; no address of a snapshot
\* is all-zero, and every address returned by a successful call that is not
\* all-zero is classified.
C25_NullIsAllZero ==
    \A i \in DOMAIN devices :
        LET d == devices[i]
        IN  \A p \in DOMAIN d.info.ports :
                LET port == d.info.ports[p]
                    slots == hw[d.device].ports[port.port_num].gids
                IN  /\ \A g \in DOMAIN port.gids :
                           port.gids[g].gid # <<0, 0, 0, 0, 0, 0, 0, 0>>
                    /\ \A idx \in 0..(Len(slots) - 1) :
                           LET slot == slots[idx + 1]
                               passed == slot.ret = 0 /\ slot.gid # <<0, 0, 0, 0, 0, 0, 0, 0>>
                           IN  /\ \A k \in GidQueries(d.context, port.port_num, idx) :
                                      calls[k].ok <=> passed
                               /\ passed =>
                                      CountAt("read_gid_type", d.context, port.port_num, idx) >= 1

\* C25 as the code has it: the null address is the one whose interface ID
\* (the lower 64 bits) is zero.  query_gid succeeds exactly when
\* ibv_query_gid returns 0 and the interface ID of the address returned is
\* not zero, and fails with IBQueryGidFail otherwise; no address of a
\* snapshot has a zero interface ID, each is the address the table holds at
\* its index, and an index is classified exactly when its query succeeded;
\* without an address filter the snapshot holds exactly those indices.
C25_NullIsZeroInterfaceId ==
    \A i \in DOMAIN devices :
        LET d == devices[i]
        IN  \A p \in DOMAIN d.info.ports :
                LET port == d.info.ports[p]
                    slots == hw[d.device].ports[port.port_num].gids
                    ZeroId(gid) == gid[5] = 0 /\ gid[6] = 0 /\ gid[7] = 0 /\ gid[8] = 0
                    Passed(slot) == slot.ret = 0 /\ ~ZeroId(slot.gid)
                IN  /\ \A g \in DOMAIN port.gids :
                           /\ ~ZeroId(port.gids[g].gid)
                           /\ port.gids[g].gid = slots[port.gids[g].index + 1].gid
                    /\ \A idx \in 0..(Len(slots) - 1) :
                           LET slot == slots[idx + 1]
                           IN  /\ GidQueries(d.context, port.port_num, idx) # {}
                               /\ \A k \in GidQueries(d.context, port.port_num, idx) :
                                      calls[k].ok <=> Passed(slot)
                               /\ Passed(slot) <=>
                                      CountAt("read_gid_type", d.context, port.port_num, idx) >= 1
                               /\ query_gid(slot).ok <=> Passed(slot)
                               /\ ~Passed(slot) =>
                                      query_gid(slot).err.kind = "IBQueryGidFail"
                    /\ snapcfg[i].gid_type_filter = {} =>
                           {port.gids[g].index : g \in DOMAIN port.gids}
                               = {idx \in 0..(Len(slots) - 1) : Passed(slots[idx + 1])}

\* The table of the port holds fe80:: at index 0 and ::1 at index 1, both
\* returned with 0: the query of index 0 failed and is not classified, the
\* snapshot holds index 1 only.
C25_Witness ==
    /\ pc = "returned"
    /\ result.ok
    /\ \E i \in DOMAIN devices :
          LET d == devices[i]
              slots == hw[d.device].ports[1].gids
          IN  /\ Len(slots) = 2
              /\ slots[1].ret = 0 /\ slots[1].gid = <<65152, 0, 0, 0, 0, 0, 0, 0>>
              /\ slots[2].ret = 0 /\ slots[2].gid = <<0, 0, 0, 0, 0, 0, 0, 1>>
              /\ Len(d.info.ports) = 1
              /\ Len(d.info.ports[1].gids) = 1
              /\ d.info.ports[1].gids[1].index = 1
              /\ d.info.ports[1].gids[1].gid = <<0, 0, 0, 0, 0, 0, 0, 1>>
              /\ \E k \in GidQueries(d.context, 1, 0) : ~calls[k].ok
              /\ CountAt("read_gid_type", d.context, 1, 0) = 0

\* ------------------------------------------------------------- C26
\* The address list of a port computed with the two address checks in
\* either order: the link-local rule first, or the type filter first.
RECURSIVE GidsInOrder(_, _, _, _, _)
GidsInOrder(port_attr, slots, cfg, linkLocalFirst, idx) ==
    IF idx >= Len(slots)
    THEN <<>>
    ELSE LET slot == slots[idx + 1]
             g == query_gid(slot)
             t == query_gid_type(slot, port_attr)
             byType == cfg.gid_type_filter # {} /\ t.gid_type \notin cfg.gid_type_filter
             byLinkLocal == /\ cfg.roce_v2_skip_link_local_addr
                            /\ t.gid_type = RoCEv2
                            /\ is_unicast_link_local(g.gid)
             dropped == IF linkLocalFirst
                        THEN (IF byLinkLocal THEN TRUE ELSE byType)
                        ELSE (IF byType THEN TRUE ELSE byLinkLocal)
             rest == GidsInOrder(port_attr, slots, cfg, linkLocalFirst, idx + 1)
         IN  IF ~g.ok \/ ~t.ok \/ dropped
             THEN rest
             ELSE <<[index |-> idx, gid |-> g.gid, gid_type |-> t.gid_type]>> \o rest

\* The ports of a device computed with inactive ports dropped before their
\* addresses are collected, or after the addresses of every port were
\* collected and filtered.
PortsInOrder(hwdev, cfg, linkLocalFirst, inactiveLast) ==
    LET n == Len(hwdev.ports)
        PortOf(q) == [port_num |-> q,
                      port_attr |-> PortAttr(hwdev.ports[q]),
                      gids |-> GidsInOrder(PortAttr(hwdev.ports[q]), hwdev.ports[q].gids,
                                           cfg, linkLocalFirst, 0)]
        Shown(state) == state = IBV_PORT_ACTIVE \/ ~cfg.skip_inactive_port
        KeepNum(q) == Shown(hwdev.ports[q].state)
        KeepPort(port) == Shown(port.port_attr.state)
    IN  IF inactiveLast
        THEN SelectSeq([q \in 1..n |-> PortOf(q)], KeepPort)
        ELSE LET nums == SelectSeq([q \in 1..n |-> q], KeepNum)
             IN  [k \in DOMAIN nums |-> PortOf(nums[k])]

\* C26: the ports and addresses of every snapshot are those obtained with
\* the type filter applied before or after the RoCE v2 link-local check,
\* and with inactive ports dropped before or after the addresses are
\* filtered.
C26_OrderIndependent ==
    \A i \in DOMAIN devices :
        \A linkLocalFirst, inactiveLast \in BOOLEAN :
            devices[i].info.ports =
                PortsInOrder(hw[devices[i].device], snapcfg[i], linkLocalFirst, inactiveLast)

\* Both address checks and the port check are switched on; port 2 is down
\* and has addresses, port 1 holds a RoCE v2 link-local address before an
\* IB one: the snapshot holds port 1 with the address of index 1.
C26_Witness ==
    /\ pc = "returned"
    /\ result.ok
    /\ \E i \in DOMAIN devices :
          LET d == devices[i]
              hwdev == hw[d.device]
          IN  /\ snapcfg[i].skip_inactive_port
              /\ snapcfg[i].roce_v2_skip_link_local_addr
              /\ snapcfg[i].gid_type_filter = {}
              /\ Len(hwdev.ports) = 2
              /\ hwdev.ports[2].state = IBV_PORT_DOWN
              /\ Len(hwdev.ports[2].gids) = 2
              /\ hwdev.ports[1].gids[1] = SlotV2LinkLocal
              /\ Len(d.info.ports) = 1
              /\ d.info.ports[1].port_num = 1
              /\ Len(d.info.ports[1].gids) = 1
              /\ d.info.ports[1].gids[1].index = 1
              /\ d.info.ports[1].gids[1].gid_type = IB

\* ------------------------------------------------------------- C27
\* A step in which update_attr on a device of the returned collection
\* fails.
UpdateAttrFails == pc = "returned" /\ updates' = updates + 1 /\ ~last'.ok

\* C27: when update_attr fails, because ibv_query_device fails or because
\* ibv_query_port fails for some port, also after earlier ports were
\* queried, it returns that error and info.device_attr and info.ports of the
\* device are what they were before the call, as is every other field and
\* every other device; the failed call is the last one issued.
C27_FailedUpdateKeepsSnapshot ==
    [][UpdateAttrFails =>
          LET i == last'.dev
          IN  /\ last'.op = "update_attr"
              /\ last'.err.kind \in {"IBQueryDeviceFail", "IBQueryPortFail"}
              /\ DOMAIN devices' = DOMAIN devices
              /\ devices'[i].info.device_attr = devices[i].info.device_attr
              /\ devices'[i].info.ports = devices[i].info.ports
              /\ devices' = devices
              /\ Len(calls') > Len(calls)
              /\ SubSeq(calls', 1, Len(calls)) = calls
              /\ LET failed == calls'[Len(calls')]
                 IN  /\ ~failed.ok
                     /\ failed.h = devices[i].context
                     /\ failed.op = IF last'.err.kind = "IBQueryDeviceFail"
                                    THEN "ibv_query_device" ELSE "ibv_query_port"
              /\ \A k \in (Len(calls) + 1)..(Len(calls') - 1) : calls'[k].ok]_vars

\* update_attr, given a configuration that skips inactive ports, queried
\* port 1 (which is down) and failed at port 2: the snapshot still holds
\* both ports, as collected by Devices::open without that option.
C27_Witness ==
    /\ last.op = "update_attr"
    /\ ~last.ok
    /\ last.err.kind = "IBQueryPortFail"
    /\ last.config.skip_inactive_port
    /\ ~snapcfg[last.dev].skip_inactive_port
    /\ Len(hw[devices[last.dev].device].ports) = 2
    /\ hw[devices[last.dev].device].ports[1].state = IBV_PORT_DOWN
    /\ Len(devices[last.dev].info.ports) = 2
    /\ devices[last.dev].info.device_attr.phys_port_cnt = 2
    /\ calls[Len(calls)] = [op |-> "ibv_query_port", h |-> devices[last.dev].context,
                            port |-> 2, idx |-> 0, ok |-> FALSE]
    /\ calls[Len(calls) - 1] = [op |-> "ibv_query_port", h |-> devices[last.dev].context,
                                port |-> 1, idx |-> 0, ok |-> TRUE]

\* ------------------------------------------------------------- C28
\* C28: in every snapshot the ports are in strictly increasing order of
\* port_num, each between 1 and the number of physical ports; the
\* addresses of a port are in strictly increasing order of index; the index
\* of an address is the index of the table at which it was queried, not its
\* position in the list: the address and its type are those of that table
\* entry, and a query of that index succeeded on the context of the device.
C28_OrderedByNumberAndIndex ==
    \A i \in DOMAIN devices :
        LET d == devices[i]
            ports == d.info.ports
            hwports == hw[d.device].ports
        IN  /\ \A p \in DOMAIN ports :
                  /\ ports[p].port_num >= 1
                  /\ ports[p].port_num <= Len(hwports)
                  /\ ports[p].port_num <= d.info.device_attr.phys_port_cnt
            /\ \A p, q \in DOMAIN ports : p < q => ports[p].port_num < ports[q].port_num
            /\ \A p \in DOMAIN ports :
                  LET gids == ports[p].gids
                      slots == hwports[ports[p].port_num].gids
                  IN  /\ \A g, h \in DOMAIN gids : g < h => gids[g].index < gids[h].index
                      /\ \A g \in DOMAIN gids :
                            /\ gids[g].index \in 0..(Len(slots) - 1)
                            /\ gids[g].index >= g - 1
                            /\ gids[g].gid = slots[gids[g].index + 1].gid
                            /\ SameType(gids[g].gid_type,
                                        TypeAt(slots, ports[p].port_attr, gids[g].index))
                            /\ \E k \in DOMAIN calls :
                                  calls[k] = [op |-> "ibv_query_gid", h |-> d.context,
                                              port |-> ports[p].port_num,
                                              idx |-> gids[g].index, ok |-> TRUE]

\* Port 1 of two is down and skipped, the link-local address at index 0 of
\* port 2 is skipped: the snapshot holds port 2 only, with the address of
\* index 1 only.
C28_Witness ==
    /\ pc = "returned"
    /\ result.ok
    /\ \E i \in DOMAIN devices :
          LET d == devices[i]
          IN  /\ Len(hw[d.device].ports) = 2
              /\ d.info.device_attr.phys_port_cnt = 2
              /\ Len(d.info.ports) = 1
              /\ d.info.ports[1].port_num = 2
              /\ Len(d.info.ports[1].gids) = 1
              /\ d.info.ports[1].gids[1].index = 1
              /\ d.info.ports[1].gids[1].gid = hw[d.device].ports[2].gids[2].gid

\* ------------------------------------------------- Devices shared by threads
\* The devices of SpecArc, in list order.
ArcNames == <<"mlx5_0", "mlx5_1", "mlx5_2">>
HwArc ==
    {[i \in 1..n |-> HwDevice(ArcNames[i],
                              [p \in 1..DevPorts |->
                                  HwPort(IBV_PORT_ACTIVE, "InfiniBand", <<SlotIB>>)])] :
        n \in 1..MaxDevices}

\* The loop of Devices::open when no call fails: the devices pushed and the
\* calls issued from raw device i on.
RECURSIVE OpenAll(_, _, _)
OpenAll(hws, i, acc) ==
    IF i > Len(hws)
    THEN acc
    ELSE LET r == DeviceOpen(i, hws[i], Len(acc.devices), DefaultConfig, NoFail)
         IN  OpenAll(hws, i + 1, [devices |-> Append(acc.devices, r.this),
                                  calls |-> acc.calls \o r.calls])

\* A holder of devices, owned by one thread: a Devices collection (a Vec of
\* Arc<Device>) or one Arc<Device>.  arcs lists the devices whose Arc it
\* still holds; dropping: its drop has begun; destroying: the device whose
\* Drop this thread is running, phase the field about to be dropped.
Holder(kind, arcs) ==
    [kind |-> kind, arcs |-> arcs, dropping |-> FALSE, destroying |-> 0,
     phase |-> "none"]

\* The holder can be read and cloned.
Usable(holder) == ~holder.dropping /\ holder.arcs # <<>>

\* The number of Arcs for device i among arcs.
ArcsFor(arcs, i) == Cardinality({k \in DOMAIN arcs : arcs[k] = i})

\* Devices::open has returned Ok(Devices) under the default configuration:
\* every device is held by the returned collection alone (strong count 1).
InitArc ==
    /\ hw \in HwArc
    /\ config = DefaultConfig
    /\ refresh = DefaultConfig
    /\ pc = "returned"
    /\ list = "dropped"
    /\ cursor = Len(hw) + 1
    /\ LET opened == OpenAll(hw, 1, [devices |-> <<>>, calls |-> <<>>])
       IN  /\ devices = opened.devices
           /\ calls = <<Call("ibv_get_device_list", 0, 0, 0, TRUE)>>
                         \o opened.calls \o DropRawDeviceList
    /\ result = [ok |-> TRUE, err |-> NoError]
    /\ updates = 0
    /\ snapcfg = [i \in 1..Len(hw) |-> DefaultConfig]
    /\ last = LastOp("Devices::open", 0, DefaultConfig, NoError)
    /\ arg = [fn |-> "Arc"]
    /\ text = <<Holder("Devices", [i \in 1..Len(hw) |-> i])>>
    /\ ret = [strong |-> [i \in 1..Len(hw) |-> 1],
              seen |-> [dev |-> 0, index |-> 0, name |-> "", released |-> FALSE]]

\* What the steps of SpecArc leave alone.
arcframe == <<hw, config, refresh, pc, list, cursor, devices, result, updates, snapcfg, last, arg>>

\* Devices::clone without Arc: the new collection holds the same devices
\* and no count is raised.
CloneDevices_NoCount ==
    /\ Len(text) < MaxHolders
    /\ \E h \in DOMAIN text :
          /\ text[h].kind = "Devices"
          /\ Usable(text[h])
          /\ text' = Append(text, Holder("Devices", text[h].arcs))
    /\ UNCHANGED <<ret, calls, arcframe>>

\* derive(Clone) for Devices: the Vec is cloned, which clones every
\* Arc<Device> and so adds one to the strong count of every device in it.
\* The thread holds the collection it clones, so the counts it raises are
\* at least 1 throughout.
CloneDevices ==
    /\ Len(text) < MaxHolders
    /\ \E h \in DOMAIN text :
          /\ text[h].kind = "Devices"
          /\ Usable(text[h])
          /\ text' = Append(text, Holder("Devices", text[h].arcs))
          /\ ret' = [ret EXCEPT !.strong =
                        [i \in DOMAIN @ |-> @[i] + ArcsFor(text[h].arcs, i)]]
    /\ UNCHANGED <<calls, arcframe>>

\* Arc::clone of one Arc<Device> of a holder (Devices derefs to the Vec).
CloneArc ==
    /\ Len(text) < MaxHolders
    /\ \E h \in DOMAIN text :
          /\ Usable(text[h])
          /\ \E k \in DOMAIN text[h].arcs :
                LET i == text[h].arcs[k]
                IN  /\ text' = Append(text, Holder("Arc", <<i>>))
                    /\ ret' = [ret EXCEPT !.strong[i] = @ + 1]
    /\ UNCHANGED <<calls, arcframe>>

\* A thread drops its holder, or goes on dropping it: the next Arc of it
\* is dropped, front to back.  The strong count is decremented atomically;
\* the thread that takes it from 1 to 0 runs the Drop of the Device.
DropArc ==
    /\ \E h \in DOMAIN text :
          /\ text[h].arcs # <<>>
          /\ text[h].destroying = 0
          /\ LET i == Head(text[h].arcs)
                 lastOne == ret.strong[i] = 1
             IN  /\ text' = [text EXCEPT ![h] =
                                [@ EXCEPT !.arcs = Tail(@),
                                          !.dropping = TRUE,
                                          !.destroying = IF lastOne THEN i ELSE 0,
                                          !.phase = IF lastOne THEN "protection_domain"
                                                    ELSE "none"]]
                 /\ ret' = [ret EXCEPT !.strong[i] = @ - 1]
    /\ UNCHANGED <<calls, arcframe>>

\* Drop of a Device, first field: the protection domain is deallocated.
DropProtectionDomain ==
    /\ \E h \in DOMAIN text :
          /\ text[h].destroying # 0
          /\ text[h].phase = "protection_domain"
          /\ calls' = Append(calls, DropDevice(devices[text[h].destroying])[1])
          /\ text' = [text EXCEPT ![h] = [@ EXCEPT !.phase = "context"]]
    /\ UNCHANGED <<ret, arcframe>>

\* Drop of a Device, second field: the context is closed.
DropContext ==
    /\ \E h \in DOMAIN text :
          /\ text[h].destroying # 0
          /\ text[h].phase = "context"
          /\ calls' = Append(calls, DropDevice(devices[text[h].destroying])[2])
          /\ text' = [text EXCEPT ![h] = [@ EXCEPT !.destroying = 0, !.phase = "none"]]
    /\ UNCHANGED <<ret, arcframe>>

\* A thread reads info and index of a device through a holder it owns.
\* released: a release call was issued for the device before the read.
ReadInfo ==
    /\ \E h \in DOMAIN text :
          /\ Usable(text[h])
          /\ \E k \in DOMAIN text[h].arcs :
                LET i == text[h].arcs[k]
                    d == devices[i]
                IN  ret' = [ret EXCEPT !.seen =
                               [dev |-> i, index |-> Device_index(d),
                                name |-> d.info.name,
                                released |->
                                    \E c \in DOMAIN calls :
                                        /\ calls[c].op \in {"ibv_dealloc_pd", "ibv_close_device"}
                                        /\ calls[c].h \in {d.protection_domain, d.context}]]
    /\ UNCHANGED <<text, calls, arcframe>>

NextArc ==
    \/ CloneDevices
    \/ CloneArc
    \/ DropArc
    \/ DropProtectionDomain
    \/ DropContext
    \/ ReadInfo

SpecArc == InitArc /\ [][NextArc]_vars

\* ------------------------------------------------------------- C29
\* The Arcs for device i that holders still hold.
HoldersOf(i) ==
    Cardinality({hk \in {<<h, k>> : h \in DOMAIN text, k \in 1..MaxDevices} :
                    hk[2] \in DOMAIN text[hk[1]].arcs /\ text[hk[1]].arcs[hk[2]] = i})

\* The positions in the call log of the release calls for device i.
Released(op, i) ==
    {c \in DOMAIN calls : calls[c].op = op /\ calls[c].h = devices[i].context}

ArcSafe ==
    \A i \in DOMAIN devices :
        LET pd == Released("ibv_dealloc_pd", i)
            ctx == Released("ibv_close_device", i)
            running == \E h \in DOMAIN text : text[h].destroying = i
        IN  /\ Cardinality(pd) <= 1
            /\ Cardinality(ctx) <= 1
            /\ HoldersOf(i) > 0 => (pd = {} /\ ctx = {} /\ ~running)
            /\ ctx # {} => \E a \in pd : \A b \in ctx : a < b
            /\ (HoldersOf(i) = 0 /\ ~running) =>
                   (Cardinality(pd) = 1 /\ Cardinality(ctx) = 1)
            /\ ret.seen.dev = i =>
                   /\ ~ret.seen.released
                   /\ ret.seen.index = i - 1
                   /\ ret.seen.name = hw[i].name

\* C29: however the clones of a Devices collection and the Arc<Device>
\* handles are dropped, one Arc at a time and interleaved, each device's
\* protection domain and context are released at most once, not while any
\* holder holds the device, the protection domain before the context, and
\* exactly once when no holder is left and the Drop has run; a read of info
\* and index through a holder sees a device that has not been released and
\* changes neither a device, nor the call log, nor a holder, nor a count.
C29_SharedDevices ==
    /\ []ArcSafe
    /\ [][ret'.seen # ret.seen =>
             /\ devices' = devices
             /\ calls' = calls
             /\ text' = text
             /\ ret'.strong = ret.strong]_vars

\* Two devices, three holders: the returned collection and its clone are
\* dropped, a handle to the second device is still held and was read; the
\* first device is released, the second is not.
C29_Witness ==
    /\ arg.fn = "Arc"
    /\ Len(devices) = 2
    /\ Len(text) = 3
    /\ text[1].kind = "Devices" /\ text[1].arcs = <<>> /\ text[1].destroying = 0
    /\ text[2].kind = "Devices" /\ text[2].arcs = <<>> /\ text[2].destroying = 0
    /\ text[3].kind = "Arc" /\ text[3].arcs = <<2>> /\ ~text[3].dropping
    /\ ret.strong = <<0, 1>>
    /\ ret.seen.dev = 2
    /\ Cardinality(Released("ibv_dealloc_pd", 1)) = 1
    /\ Cardinality(Released("ibv_close_device", 1)) = 1
    /\ Released("ibv_dealloc_pd", 2) = {}
    /\ Released("ibv_close_device", 2) = {}

====
